---- MODULE Spec2Model ----
(***************************************************************************)
(* A model of deep-poker-rust: the betting state machine of                *)
(* game/state_play.rs (one Play node of the lazily expanded game tree and  *)
(* the walk of one hand through it) and the concurrent self-play           *)
(* tournament of agent/tournament.rs (worker threads, matchmaking under    *)
(* the roster lock, the try_lock retry loop and the Elo update).           *)
(*                                                                         *)
(* Conventions.  Seats and roster indices are 0-based as in the source.    *)
(* Raise ratios (f32 in the source) are kept in hundredths, so 2.0 is 200  *)
(* and 0.66 is 66; f32::round (half away from zero) of ratio * x is        *)
(* (ratio * x + 50) \div 100 on the non-negative values used here.  u32    *)
(* subtraction wraps (release build); TLC's integers are 32-bit signed, so *)
(* the wrap is taken modulo 2^31: chip counts stay far below 2^30, and     *)
(* every comparison and the cast to i32 come out as they do modulo 2^32.   *)
(***************************************************************************)
EXTENDS Integers, Sequences, FiniteSets, TLC

VARIABLES
    \* ---- one hand walking the game tree (game/state_play.rs) ----
    action_config,        \* StatePlay.action_config, fixed for the hand
    state_data,           \* StatePlay.state_data: the ledger of the current node
    node_type,            \* State::get_type of the current node
    children,             \* StatePlay.children (NoChild for None)
    valid_actions_mask,   \* StatePlay.valid_actions_mask
    outcome,              \* "running", or the panic that ended the hand
    expansions,           \* calls of create_children on the current node
    \* ---- Tournament::play (agent/tournament.rs) ----
    agents,               \* Tournament.agents: roster index -> AgentTournament
    main_pc,              \* where the thread calling play() is
    play_args,            \* n_workers, rounds, batch_size of the running play()
    mutex,                \* per record: the worker holding its Mutex, or Free
    roster_mutex,         \* the worker holding agents_tournament_base, or Free
    workers,              \* per worker thread: its locals and position
    ledger,               \* bookkeeping of the run: the roster at its start, the
                          \* hands played and the deltas computed per record
    \* ---- the calls made on a Tournament and on an agent ----
    file,                 \* the contents of the state file, character by character
    saved,                \* bookkeeping: the roster save_state last wrote
    call                  \* the last call: what it was given and what came back

tournVars == <<agents, main_pc, play_args, mutex, roster_mutex, workers, ledger>>

apiVars == <<file, saved, call>>

gameVars == <<action_config, state_data, node_type, children,
              valid_actions_mask, outcome, expansions>>

\* ------------------------------------------------------------------ bounds

\* Longest history of a node the walk still descends from.
MaxHistory == 8

\* Calls of create_children on one node that the walk follows.
MaxExpansions == 2

\* Largest number of worker threads (num_cpus * 3 / 4) of a run.
MaxWorkers == 2

\* Largest total_hands passed to play().
MaxTotalHands == 3

\* Largest roster the calls on a Tournament build up.
MaxRoster == 4

\* Longest action mask and longest probability vector an agent is given.
MaxMask == 3

\* ------------------------------------------------------------ small helpers

\* u32 subtraction, wrapping
Sub32(a, b) == IF a >= b THEN a - b ELSE (2147483647 - (b - a)) + 1

\* (ratio as f32 * x as f32).round() as u32, ratio in hundredths
RoundRatio(ratio, x) == (ratio * x + 50) \div 100

Seats(sd) == 0 .. (sd.player_count - 1)

RECURSIVE SumBets(_, _)
SumBets(sd, j) == IF j >= sd.player_count THEN 0 ELSE sd.bets[j] + SumBets(sd, j + 1)

\* create_children, lines 41-48: pot
Pot(sd) == SumBets(sd, 0)

RECURSIVE MaxBet(_, _, _)
MaxBet(sd, j, best) ==
    IF j >= sd.player_count THEN best
    ELSE MaxBet(sd, j + 1, IF sd.bets[j] > best THEN sd.bets[j] ELSE best)

\* create_children, lines 41-48: biggest_bet
BiggestBet(sd) == MaxBet(sd, 0, 0)

NoChild == [type |-> "None"]

NoAction == [action_type |-> "None", raise_index |-> -1, player_index |-> -1, street |-> 0]

\* ------------------------------------------------- state.rs (not in src/)

get_player_to_move(sd) == sd.player_to_move

get_to_move_bet(sd) == sd.bets[sd.player_to_move]

get_to_move_stack(sd) == sd.stacks[sd.player_to_move]

get_active_players(is_player_in) ==
    Cardinality({i \in DOMAIN is_player_in : is_player_in[i]})

\* faulty variant: a seat with no chips behind is still asked to act
CanActBroke(sd, i) == sd.is_player_in[i]

\* faulty variant: a folded seat with chips behind is still asked to act
CanActFolded(sd, i) == sd.stacks[i] # 0

\* A seat that can still be asked to act: not folded and with chips behind.
CanAct(sd, i) == sd.is_player_in[i] /\ sd.stacks[i] # 0

RECURSIVE NextFrom(_, _, _)
NextFrom(sd, i, stop) ==
    IF i = stop THEN -1
    ELSE IF CanAct(sd, i) THEN i
    ELSE NextFrom(sd, (i + 1) % sd.player_count, stop)

\* The next seat after the seat to move, in turn order, up to and including
\* last_to_move_temp; -1 (round closed) when there is none.
get_next_player(sd, last_to_move_temp) ==
    NextFrom(sd, (sd.player_to_move + 1) % sd.player_count,
             (last_to_move_temp + 1) % sd.player_count)

RECURSIVE LastFrom(_, _, _, _)
LastFrom(sd, i, stop, last) ==
    IF i = stop THEN last
    ELSE LastFrom(sd, (i + 1) % sd.player_count, stop,
                  IF CanAct(sd, i) THEN i ELSE last)

\* The seat that acts last after player_that_raised: the seat before the
\* raiser in turn order among those that can act; -1 when there is none.
get_last_player(sd, player_that_raised) ==
    LastFrom(sd, (player_that_raised + 1) % sd.player_count,
             player_that_raised % sd.player_count, -1)

\* ------------------------------------------------ game/state_play.rs

\* Action { action_type, raise_index, player_index, street }
NewAction(sd, type, raise_index) ==
    [action_type |-> type, raise_index |-> raise_index,
     player_index |-> get_player_to_move(sd), street |-> sd.street]

\* faulty variant: the action starts a new history
RecordAlone(new_sd, sd, act) ==
    [new_sd EXCEPT !.history = <<act>>,
                   !.last_actions[get_player_to_move(sd)] = act]

\* history.push(new_action); last_actions[player_to_move] = new_action
Record(new_sd, sd, act) ==
    [new_sd EXCEPT !.history = Append(@, act),
                   !.last_actions[get_player_to_move(sd)] = act]

Child(type, sd) == [type |-> type, state_data |-> sd]

\* faulty variant: the chips reach the bet and never leave the stack
MoveChipsKeepsStack(sd, amount) ==
    [sd EXCEPT !.bets[get_player_to_move(sd)] = @ + amount]

\* lines 140-143 and 231-232: chips go from the acting seat's stack to its bet
MoveChips(sd, amount) ==
    [sd EXCEPT !.bets[get_player_to_move(sd)] = @ + amount,
               !.stacks[get_player_to_move(sd)] = @ - amount]

Pushed(child, valid) == [child |-> child, valid |-> valid, panic |-> FALSE]

\* faulty variant: a seat may fold when it faces no bet
FoldLegalAtLevel(sd, biggest_bet) == biggest_bet >= get_to_move_bet(sd)

\* handle_fold, line 95
FoldLegal(sd, biggest_bet) == biggest_bet > get_to_move_bet(sd)

\* faulty variant: a fold that leaves one seat closes the round like a call
FoldSuccessorNoSurvivor(new_sd) ==
    IF new_sd.player_to_move # -1 THEN "Play"
    ELSE IF new_sd.street # 4 THEN "Chance"
    ELSE "Terminal"

\* handle_fold, lines 110-127: the kind of state the fold leads to
FoldSuccessor(new_sd) ==
    IF get_active_players(new_sd.is_player_in) = 1 THEN "Terminal"
    ELSE IF new_sd.player_to_move # -1 THEN "Play"
    ELSE IF new_sd.street # 4 THEN "Chance"
    ELSE "Terminal"

\* handle_fold
handle_fold(sd, biggest_bet) ==
    IF FoldLegal(sd, biggest_bet) THEN
        LET p  == get_player_to_move(sd)
            d1 == [sd EXCEPT !.is_player_in[p] = FALSE,
                             !.players_in_hand = @ - 1]
            d2 == Record(d1, sd, NewAction(sd, "Fold", -1))
            d3 == [d2 EXCEPT !.player_to_move = get_next_player(sd, d2.last_player)]
        IN  Pushed(Child(FoldSuccessor(d3), d3), TRUE)
    ELSE Pushed(NoChild, FALSE)

\* faulty variant: a closed round always leads to a new street
SuccessorNoShowdown(player_to_move, street) ==
    IF player_to_move # -1 THEN "Play" ELSE "Chance"

\* handle_call, lines 155-168, and handle_all_in, lines 298-313: the kind of
\* state a call or an all-in leads to
Successor(player_to_move, street) ==
    IF player_to_move # -1 THEN "Play"
    ELSE IF street # 4 THEN "Chance"
    ELSE "Terminal"

\* faulty variant: a call may take the whole stack
CallLegalWholeStack(sd, biggest_bet) ==
    Sub32(biggest_bet, get_to_move_bet(sd)) <= get_to_move_stack(sd)

\* handle_call, line 138
CallLegal(sd, biggest_bet) ==
    Sub32(biggest_bet, get_to_move_bet(sd)) < get_to_move_stack(sd)

\* handle_call
handle_call(sd, biggest_bet) ==
    IF CallLegal(sd, biggest_bet) THEN
        LET p  == get_player_to_move(sd)
            to_call == Sub32(biggest_bet, get_to_move_bet(sd))
            d1 == MoveChips(sd, to_call)
            d2 == Record(d1, sd, NewAction(sd, "Call", -1))
            d3 == [d2 EXCEPT !.player_to_move = get_next_player(sd, d2.last_player)]
        IN  Pushed(Child(Successor(d3.player_to_move, d3.street), d3), TRUE)
    ELSE Pushed(NoChild, FALSE)

RECURSIVE StreetActions(_, _, _)
\* the loop of lines 186-192 / 262-271: trailing actions of the street
StreetActions(history, k, street) ==
    IF k = 0 THEN 0
    ELSE IF history[k].street = street
        THEN 1 + StreetActions(history, k - 1, street)
    ELSE 0

action_cnt(sd) == StreetActions(sd.history, Len(sd.history), sd.street)

\* handle_all_in, lines 261-271: has_all_in
has_all_in(sd) ==
    \E k \in (Len(sd.history) - action_cnt(sd) + 1) .. Len(sd.history) :
        sd.history[k].action_type = "AllIn"

\* faulty variant: the cap is max_actions itself
CapLimitMaxActions(sd) == sd.player_count * 3

\* max_actions - player_count, lines 194-195 / 273-274
CapLimit(sd) == sd.player_count * 3 - sd.player_count

\* handle_raise, line 195
RaiseCapBlocked(sd) == action_cnt(sd) > CapLimit(sd)

\* faulty variant: the cap blocks the all-in whether or not an all-in was made
AllInCapBlockedAlways(sd) == action_cnt(sd) > CapLimit(sd)

\* handle_all_in, line 274
AllInCapBlocked(sd) == ~has_all_in(sd) /\ action_cnt(sd) > CapLimit(sd)

\* faulty variant: every street is sized from the pot
RaiseSizingFromPot(sd, pot, biggest_bet, action_value) ==
    [raise      |-> RoundRatio(action_value, pot),
     actual_bet |-> Sub32(biggest_bet, get_to_move_bet(sd)) + RoundRatio(action_value, pot)]

\* handle_raise, lines 202-213: raise and actual_bet
RaiseSizing(sd, pot, biggest_bet, action_value) ==
    LET to_call == Sub32(biggest_bet, get_to_move_bet(sd))
    IN  IF sd.street = 1
        THEN [raise      |-> Sub32(RoundRatio(action_value, biggest_bet), biggest_bet),
              actual_bet |-> Sub32(RoundRatio(action_value, biggest_bet),
                                   get_to_move_bet(sd))]
        ELSE [raise      |-> RoundRatio(action_value, pot),
              actual_bet |-> to_call + RoundRatio(action_value, pot)]

\* actual_bet as i32
AsI32(x) == IF x >= 1073741824 THEN (x - 2147483647) - 1 ELSE x

\* faulty variant: the commitment floor is not looked at
RaiseRejectedNoFloor(cfg, sd, sizing) ==
    \/ sizing.raise < sd.min_raise
    \/ sizing.actual_bet >= get_to_move_stack(sd)

\* handle_raise, lines 215-227: the three rejections
RaiseRejected(cfg, sd, sizing) ==
    LET stack_left == get_to_move_stack(sd) - AsI32(sizing.actual_bet)
    IN  \/ sizing.raise < sd.min_raise
        \/ sizing.actual_bet >= get_to_move_stack(sd)
        \/ stack_left * 100 < cfg.commited_to_pot_percentage * cfg.buy_in

\* faulty variant: a ratio of 0.0 is sized like any other
RaiseNeverDisabled(action_value) == FALSE

\* handle_raise, line 177
RaiseDisabled(action_value) == action_value = 0

\* faulty variant: the raise leaves last_player as it was
RaiseTurnKeepsLast(new_sd, sd) ==
    [new_sd EXCEPT !.player_to_move = get_next_player(sd, new_sd.last_player)]

\* handle_raise, lines 242-243: who acts last, and who is next
RaiseTurn(new_sd, sd) ==
    LET d3 == [new_sd EXCEPT !.last_player = get_last_player(sd, get_player_to_move(sd))]
    IN  [d3 EXCEPT !.player_to_move = get_next_player(sd, d3.last_player)]

\* handle_raise
handle_raise(cfg, sd, pot, biggest_bet, action_index, action_value) ==
    IF RaiseDisabled(action_value) THEN Pushed(NoChild, FALSE)
    ELSE IF RaiseCapBlocked(sd) THEN Pushed(NoChild, FALSE)
    ELSE LET sizing == RaiseSizing(sd, pot, biggest_bet, action_value)
         IN  IF RaiseRejected(cfg, sd, sizing) THEN Pushed(NoChild, FALSE)
             ELSE
                LET p  == get_player_to_move(sd)
                    d1 == MoveChips(sd, sizing.actual_bet)
                    d2 == Record(d1, sd, NewAction(sd, "Raise", action_index))
                    d4 == RaiseTurn(d2, sd)
                IN  IF d4.player_to_move # -1
                        THEN Pushed(Child("Play", d4), TRUE)
                    ELSE [child |-> NoChild, valid |-> FALSE, panic |-> TRUE]

\* handle_all_in, line 281
AllInFunded(sd) == get_to_move_stack(sd) > 0

\* faulty variant: the stack is emptied and the bet does not grow
AllInChipsKeepsBet(sd) ==
    [sd EXCEPT !.stacks[get_player_to_move(sd)] = 0]

\* handle_all_in, lines 282-284: the whole stack goes to the bet
AllInChips(sd) ==
    [sd EXCEPT !.bets[get_player_to_move(sd)] = @ + get_to_move_stack(sd),
               !.stacks[get_player_to_move(sd)] = 0]

\* handle_all_in
handle_all_in(sd) ==
    IF AllInCapBlocked(sd) THEN Pushed(NoChild, FALSE)
    ELSE IF AllInFunded(sd) THEN
        LET p  == get_player_to_move(sd)
            d1 == AllInChips(sd)
            d2 == Record(d1, sd, NewAction(sd, "AllIn", -1))
            d3 == [d2 EXCEPT !.last_player = get_last_player(sd, p)]
            d4 == [d3 EXCEPT !.player_to_move = get_next_player(sd, d3.last_player)]
        IN  Pushed(Child(Successor(d4.player_to_move, sd.street), d4), TRUE)
    ELSE Pushed(NoChild, FALSE)

\* handle_raises, lines 82-86: the ladder of the street
Raises(cfg, sd) ==
    IF sd.street = 1 THEN cfg.preflop_raise_sizes ELSE cfg.postflop_raise_sizes

\* handle_raises: one handle_raise per ratio of the ladder, in order
handle_raises(cfg, sd, pot, biggest_bet) ==
    [i \in 1 .. Len(Raises(cfg, sd)) |->
        handle_raise(cfg, sd, pot, biggest_bet, i - 1, Raises(cfg, sd)[i])]

\* Everything create_children pushes, in order: fold, call, raises, all-in.
\* A raise that panics ends the pushes there.
PushedSlots(cfg, sd) ==
    LET pot == Pot(sd)
        biggest_bet == BiggestBet(sd)
        rs == handle_raises(cfg, sd, pot, biggest_bet)
        all == <<handle_fold(sd, biggest_bet), handle_call(sd, biggest_bet)>>
               \o rs \o <<handle_all_in(sd)>>
        bad == {k \in 1 .. Len(all) : all[k].panic}
    IN  IF bad = {} THEN all
        ELSE LET first == CHOOSE k \in bad : \A m \in bad : k <= m
             IN  SubSeq(all, 1, first)

\* create_children, line 56
ExpectedSlots(cfg) == 3 + Len(cfg.postflop_raise_sizes)

\* create_children, lines 55-67: how the expansion ends
ExpansionOutcome(cfg, slots) ==
    IF \E k \in 1 .. Len(slots) : slots[k].panic THEN "raise_no_next"
    ELSE IF Len(slots) # ExpectedSlots(cfg) THEN "assert_len"
    ELSE IF \A k \in 1 .. Len(slots) : ~slots[k].valid THEN "no_valid_actions"
    ELSE "running"

\* faulty variant: the node is expanded again on every call
AlreadyExpandedNever(ch) == FALSE

\* create_children, lines 37-39
AlreadyExpanded(ch) == ch # <<>>

\* create_children
create_children ==
    /\ node_type = "Play"
    /\ outcome = "running"
    /\ expansions < MaxExpansions
    /\ expansions' = expansions + 1
    /\ IF AlreadyExpanded(children)
       THEN UNCHANGED <<children, valid_actions_mask, outcome>>
       ELSE LET slots == PushedSlots(action_config, state_data)
                kept  == SelectSeq(slots, LAMBDA s : ~s.panic)
            IN  \* the pushes append to the vectors the node holds
                /\ children' = children \o [k \in 1 .. Len(kept) |-> kept[k].child]
                /\ valid_actions_mask' =
                      valid_actions_mask \o [k \in 1 .. Len(kept) |-> kept[k].valid]
                /\ outcome' = ExpansionOutcome(action_config,
                                                [k \in 1 .. Len(children) |-> Pushed(children[k], FALSE)]
                                                \o slots)
    /\ UNCHANGED <<action_config, state_data, node_type>>

\* ------------------------------------- tree.rs, state_chance.rs (not in src/)

\* Tree::play_one_hand: the agent's index is accepted when in range and
\* masked true, and the walk descends into the child built for it.
Descend(i) ==
    /\ node_type = "Play"
    /\ outcome = "running"
    /\ i \in 1 .. Len(children)
    /\ valid_actions_mask[i]
    /\ Len(state_data.history) < MaxHistory
    /\ state_data' = children[i].state_data
    /\ node_type' = children[i].type
    /\ children' = <<>>
    /\ valid_actions_mask' = <<>>
    /\ expansions' = 0
    /\ UNCHANGED <<action_config, outcome>>

\* Seats that can act on the next street, in turn order from seat 0.
Actors(sd) == {i \in Seats(sd) : CanAct(sd, i)}

\* StateChance: the street advances, the minimum raise is reset and the
\* turn starts again at the first seat that can act; with fewer than two
\* such seats nobody has a decision left and the board runs out.
AfterChance(cfg, sd) ==
    LET acts == Actors(sd)
        d == [sd EXCEPT !.street = @ + 1, !.min_raise = cfg.big_blind]
    IN  IF Cardinality(acts) < 2
        THEN Child(IF d.street < 4 THEN "Chance" ELSE "Terminal",
                   [d EXCEPT !.player_to_move = -1])
        ELSE Child("Play",
                   [d EXCEPT !.player_to_move = CHOOSE i \in acts : \A j \in acts : i <= j,
                             !.last_player = CHOOSE i \in acts : \A j \in acts : i >= j])

ChanceStep ==
    /\ node_type = "Chance"
    /\ outcome = "running"
    /\ state_data' = AfterChance(action_config, state_data).state_data
    /\ node_type' = AfterChance(action_config, state_data).type
    /\ UNCHANGED <<action_config, children, valid_actions_mask, outcome, expansions>>

\* StateData::new: every seat starts with buy_in, seats 0 and 1 post the
\* blinds, the seat after the big blind acts first and the big blind last.
Root(cfg) ==
    LET n == cfg.player_count
        blind(i) == IF i = 0 THEN cfg.small_blind ELSE IF i = 1 THEN cfg.big_blind ELSE 0
    IN  [player_count    |-> n,
         bets            |-> [i \in 0 .. n - 1 |-> blind(i)],
         stacks          |-> [i \in 0 .. n - 1 |-> cfg.buy_in - blind(i)],
         is_player_in    |-> [i \in 0 .. n - 1 |-> TRUE],
         players_in_hand |-> n,
         history         |-> <<>>,
         last_actions    |-> [i \in 0 .. n - 1 |-> NoAction],
         player_to_move  |-> 2 % n,
         last_player     |-> 1,
         street          |-> 1,
         min_raise       |-> cfg.big_blind]

\* main.rs lines 13-15: three seats, buy-in 300, ladders of two and four
MainConfig ==
    [player_count |-> 3, buy_in |-> 300, small_blind |-> 10, big_blind |-> 20,
     commited_to_pot_percentage |-> 20,
     preflop_raise_sizes |-> <<200, 300>>,
     postflop_raise_sizes |-> <<25, 50, 66, 100>>]

\* The configurations a hand is played under: that of main.rs, and small
\* heads-up and three-handed tables whose ladders have equal length.
Configs ==
    { MainConfig,
      [player_count |-> 2, buy_in |-> 100, small_blind |-> 1, big_blind |-> 2,
       commited_to_pot_percentage |-> 10,
       preflop_raise_sizes |-> <<200, 0>>,
       postflop_raise_sizes |-> <<50, 100>>],
      [player_count |-> 3, buy_in |-> 20, small_blind |-> 1, big_blind |-> 2,
       commited_to_pot_percentage |-> 10,
       preflop_raise_sizes |-> <<0, 200>>,
       postflop_raise_sizes |-> <<100, 0>>] }

GameInit ==
    /\ action_config \in Configs
    /\ state_data = Root(action_config)
    /\ node_type = "Play"
    /\ children = <<>>
    /\ valid_actions_mask = <<>>
    /\ outcome = "running"
    /\ expansions = 0

GameNext ==
    \/ create_children
    \/ \E i \in 1 .. 7 : Descend(i)
    \/ ChanceStep

\* ------------------------------------------------ agent/tournament.rs

Free == -1

\* Elo is kept in hundredths of a point (f32 in the source).
EloUnit == 100

\* add_agent, lines 64-71: a new record
NewAgent(network_file, iteration) ==
    [network_file |-> network_file, elo |-> 1400 * EloUnit, iteration |-> iteration,
     agent_network |-> network_file, hands_played |-> 0, over_max_rating |-> FALSE]

Abs(x) == IF x < 0 THEN -x ELSE x

Min(a, b) == IF a < b THEN a ELSE b

\* a / b rounded to the nearest integer, half away from zero
RoundDiv(a, b) == IF a >= 0 THEN (2 * a + b) \div (2 * b) ELSE -((2 * (-a) + b) \div (2 * b))

\* 1000 * 10^(d / 400) at d = -800, -750, ..., 800 Elo points
Pow10Table ==
    <<10, 13, 18, 24, 32, 42, 56, 75, 100, 133, 178, 237, 316, 422, 562, 750,
      1000, 1334, 1778, 2371, 3162, 4217, 5623, 7499, 10000, 13335, 17783,
      23714, 31623, 42170, 56234, 74989, 100000>>

\* 1000 * 10f32.powf(elo_diff / 400.0), elo_diff in hundredths: the table,
\* interpolated linearly between its points and clamped at its ends
Pow10(elo_diff) ==
    LET span == 50 * EloUnit
        d  == IF elo_diff < -16 * span THEN -16 * span
              ELSE IF elo_diff > 16 * span THEN 16 * span ELSE elo_diff
        k  == (d + 16 * span) \div span
        lo == Pow10Table[k + 1]
        hi == Pow10Table[IF k = 32 THEN 33 ELSE k + 2]
    IN  lo + ((hi - lo) * (d + 16 * span - k * span)) \div span

\* calculate_expected_win_prob, in thousandths
calculate_expected_win_prob(elo_a, elo_b) ==
    RoundDiv(1000 * 1000, 1000 + Pow10(elo_b - elo_a))

\* calculate_elo_diff: k in hundredths, probabilities in thousandths
calculate_elo_diff(expected_win_prob, actual_win, k) ==
    RoundDiv(k * (actual_win - expected_win_prob), 1000)

\* lines 236-243, in thousandths; rewards are whole chips, so the 1e-4
\* tolerance is equality
player_i_result(won_i, won_j) ==
    IF won_i = won_j THEN 500 ELSE IF won_i > won_j THEN 1000 ELSE 0

\* faulty variant: the two branches change places
min_value_swapped(won_i, won_j) ==
    IF (won_i < 0 /\ won_j < 0) \/ (won_i > 0 /\ won_j > 0)
    THEN Min(Abs(won_i), Abs(won_j))
    ELSE Abs(won_i - won_j)

\* lines 257-264
min_value(won_i, won_j) ==
    IF (won_i < 0 /\ won_j < 0) \/ (won_i > 0 /\ won_j > 0)
    THEN Abs(won_i - won_j)
    ELSE Min(Abs(won_i), Abs(won_j))

\* faulty variant: the stake is not divided by the buy-in
dyn_elo_k_undivided(won_i, won_j, buy_in) ==
    40 * EloUnit * min_value(won_i, won_j)

\* line 266, in hundredths
dyn_elo_k(won_i, won_j, buy_in) ==
    RoundDiv(40 * EloUnit * min_value(won_i, won_j), buy_in)

\* faulty variant: the halving starts at 100,000 hands
ScaledKFrom100000(k, agent) ==
    IF agent.over_max_rating THEN RoundDiv(k * 25, 100)
    ELSE IF agent.hands_played >= 100000 THEN RoundDiv(k * 50, 100)
    ELSE k

\* lines 268-282
ScaledK(k, agent) ==
    IF agent.over_max_rating THEN RoundDiv(k * 25, 100)
    ELSE IF agent.hands_played > 100000 THEN RoundDiv(k * 50, 100)
    ELSE k

\* faulty variant: player j is given player i's result
PairDiffSameResult(ai, aj, won_i, won_j, buy_in) ==
    LET res    == player_i_result(won_i, won_j)
        prob_i == calculate_expected_win_prob(ai.elo, aj.elo)
        prob_j == calculate_expected_win_prob(aj.elo, ai.elo)
        k      == dyn_elo_k(won_i, won_j, buy_in)
    IN  <<calculate_elo_diff(prob_i, res, ScaledK(k, ai)),
          calculate_elo_diff(prob_j, res, ScaledK(k, aj))>>

\* lines 236-296 for one pair (i, j): the two deltas
PairDiff(ai, aj, won_i, won_j, buy_in) ==
    LET res    == player_i_result(won_i, won_j)
        prob_i == calculate_expected_win_prob(ai.elo, aj.elo)
        prob_j == calculate_expected_win_prob(aj.elo, ai.elo)
        k      == dyn_elo_k(won_i, won_j, buy_in)
    IN  <<calculate_elo_diff(prob_i, res, ScaledK(k, ai)),
          calculate_elo_diff(prob_j, 1000 - res, ScaledK(k, aj))>>

RECURSIVE SumOver(_, _)
SumOver(f, S) ==
    IF S = {} THEN 0
    ELSE LET x == CHOOSE y \in S : TRUE IN f[x] + SumOver(f, S \ {x})

\* lines 226-298: elo_diff[i], accumulated over every pair holding i.
\* locked[i] is the record behind agents_locked[i], i from 1
EloDiffs(locked, total_won, buy_in) ==
    LET n == Len(total_won)
        part(i, j) == IF i < j THEN PairDiff(locked[i], locked[j], total_won[i], total_won[j], buy_in)[1]
                      ELSE PairDiff(locked[j], locked[i], total_won[j], total_won[i], buy_in)[2]
    IN  [i \in 1 .. n |-> SumOver([j \in 1 .. n |-> IF j = i THEN 0 ELSE part(i, j)], 1 .. n)]

\* faulty variant: the hand is not counted
UpdatedUncounted(agent, diff) ==
    LET elo == agent.elo + diff
    IN  [agent EXCEPT !.elo = elo,
                      !.over_max_rating = IF elo > 2400 * EloUnit THEN TRUE ELSE @]

\* faulty variant: the flag follows the Elo down again
UpdatedFlagFollows(agent, diff) ==
    LET elo == agent.elo + diff
    IN  [agent EXCEPT !.elo = elo,
                      !.hands_played = @ + 1,
                      !.over_max_rating = elo > 2400 * EloUnit]

\* lines 301-307 for one participant
Updated(agent, diff) ==
    LET elo == agent.elo + diff
    IN  [agent EXCEPT !.elo = elo,
                      !.hands_played = @ + 1,
                      !.over_max_rating = IF elo > 2400 * EloUnit THEN TRUE ELSE @]

RECURSIVE InsertByElo(_, _)
\* x goes behind every record whose Elo is not smaller (a stable sort)
InsertByElo(sorted, x) ==
    IF sorted = <<>> THEN <<x>>
    ELSE IF Head(sorted).elo >= x.elo THEN <<Head(sorted)>> \o InsertByElo(Tail(sorted), x)
    ELSE <<x>> \o sorted

RECURSIVE SortByEloDesc(_)
\* sort_by(|a, b| b.elo.total_cmp(&a.elo)), lines 102-103 and 320-321
SortByEloDesc(seq) ==
    IF seq = <<>> THEN <<>>
    ELSE InsertByElo(SortByEloDesc(SubSeq(seq, 1, Len(seq) - 1)), seq[Len(seq)])

\* faulty variant: the comparison of the sort turned round
FartherFirst(a, b) == a.diff >= b.diff

\* line 163: a.1.partial_cmp(&b.1) does not put a behind b
CloserFirst(a, b) == a.diff <= b.diff

RECURSIVE InsertByDiff(_, _)
\* x goes behind every candidate that is not farther (a stable sort)
InsertByDiff(sorted, x) ==
    IF sorted = <<>> THEN <<x>>
    ELSE IF CloserFirst(Head(sorted), x) THEN <<Head(sorted)>> \o InsertByDiff(Tail(sorted), x)
    ELSE <<x>> \o sorted

RECURSIVE SortByDiffAsc(_)
\* sort_by(|a, b| a.1.partial_cmp(&b.1)), lines 162-163
SortByDiffAsc(seq) ==
    IF seq = <<>> THEN <<>>
    ELSE InsertByDiff(SortByDiffAsc(SubSeq(seq, 1, Len(seq) - 1)), seq[Len(seq)])

\* roster index -> record, from and to a sequence
AsSeq(f) == [i \in 1 .. Cardinality(DOMAIN f) |-> f[i - 1]]

AsRoster(seq) == [i \in 0 .. Len(seq) - 1 |-> seq[i + 1]]

RosterSize == Cardinality(DOMAIN agents)

\* self.player_count of the Tournament
player_count == action_config.player_count

\* every order a shuffle can leave the candidates in, line 159
Shuffles(seq) ==
    {[i \in 1 .. Len(seq) |-> seq[p[i]]] :
        p \in {q \in [1 .. Len(seq) -> 1 .. Len(seq)] :
                 \A a, b \in 1 .. Len(seq) : a # b => q[a] # q[b]}}

\* lines 166-172: the closest player_count - 1, then the acting agent
TableOf(sorted, agent_index) ==
    [i \in 1 .. Min(player_count - 1, Len(sorted)) |-> sorted[i].index]
        \o <<agent_index>>

\* the reward vectors play_one_hand can return, by table position
Rewards ==
    LET b == action_config.buy_in
    IN  {<<b, -b>>, <<0, 0>>}

\* lines 121-122: the batch of a worker
BatchStart(worker, batch_size) == worker * batch_size

BatchEnd(worker, batch_size, agents_length) ==
    Min((worker + 1) * batch_size, agents_length)

\* faulty variant: the quotient is rounded down
BatchSizeFloor(agents_length, n_workers) == agents_length \div n_workers

\* line 110: (len as f32 / n_workers as f32).ceil()
BatchSize(agents_length, n_workers) == (agents_length + n_workers - 1) \div n_workers

IdleWorker ==
    [pc |-> "done", round |-> 0, agent_index |-> 0, cursor |-> 0,
     chosen_elo |-> 0, elo_differences |-> <<>>, agents_game |-> <<>>,
     indexes |-> <<>>, indexes_sorted |-> <<>>, total_won |-> <<>>,
     agents_locked |-> <<>>, elo_diff |-> <<>>, holds |-> Free]

\* the locals a worker starts a hand with
StartHand(worker, round, agent_index) ==
    [IdleWorker EXCEPT !.pc = "lock_roster", !.round = round,
                       !.agent_index = agent_index]

\* lines 100-128: sort, size the batches, start the workers
play(total_hands, n_workers) ==
    /\ main_pc = "ready"
    /\ RosterSize > 0
    /\ LET sorted == AsRoster(SortByEloDesc(AsSeq(agents)))
           batch  == BatchSize(RosterSize, n_workers)
           rounds == total_hands \div RosterSize
       IN  /\ agents' = sorted
           /\ play_args' = [n_workers |-> n_workers, rounds |-> rounds,
                            batch_size |-> batch]
           /\ workers' = [w \in 0 .. n_workers - 1 |->
                            IF rounds > 0 /\ BatchStart(w, batch) < BatchEnd(w, batch, RosterSize)
                            THEN StartHand(w, 0, BatchStart(w, batch))
                            ELSE IdleWorker]
           /\ ledger' = [start |-> sorted,
                         hands |-> [k \in DOMAIN agents |-> 0],
                         delta |-> [k \in DOMAIN agents |-> 0],
                         failed |-> FALSE]
    /\ main_pc' = "playing"
    /\ UNCHANGED <<mutex, roster_mutex>>

Workers == DOMAIN workers

At(w, pc) == main_pc = "playing" /\ w \in Workers /\ workers[w].pc = pc

\* line 140: agents_tournament.lock()
LockRoster(w) ==
    /\ At(w, "lock_roster")
    /\ roster_mutex = Free
    /\ roster_mutex' = w
    /\ workers' = [workers EXCEPT ![w].pc = "read_chosen"]
    /\ UNCHANGED <<agents, main_pc, play_args, mutex, ledger>>

\* line 142: current_agent.lock().unwrap().elo
ReadChosen(w) ==
    /\ At(w, "read_chosen")
    /\ mutex[workers[w].agent_index] = Free
    /\ mutex' = [mutex EXCEPT ![workers[w].agent_index] = w]
    /\ workers' = [workers EXCEPT ![w].pc = "read_other",
                                  ![w].holds = workers[w].agent_index,
                                  ![w].chosen_elo = agents[workers[w].agent_index].elo,
                                  ![w].cursor = 0]
    /\ UNCHANGED <<agents, main_pc, play_args, roster_mutex, ledger>>

\* the guard of a momentary lock is dropped
DropGuard(w) ==
    /\ w \in Workers
    /\ main_pc = "playing"
    /\ workers[w].holds # Free
    /\ mutex' = [mutex EXCEPT ![workers[w].holds] = Free]
    /\ workers' = [workers EXCEPT ![w].holds = Free]
    /\ UNCHANGED <<agents, main_pc, play_args, roster_mutex, ledger>>

\* faulty variant: the acting agent is a candidate of its own table
NextOtherOrSelf(w) == workers[w].cursor

\* lines 145-156: the roster index the filter_map locks next (the acting
\* agent's own index is skipped)
NextOther(w) ==
    IF workers[w].cursor = workers[w].agent_index
    THEN workers[w].cursor + 1 ELSE workers[w].cursor

\* lines 145-156: one step of the filter_map over the roster
ReadOther(w) ==
    /\ At(w, "read_other")
    /\ workers[w].holds = Free
    /\ LET index == NextOther(w)
       IN  /\ index < RosterSize
           /\ mutex[index] = Free
           /\ mutex' = [mutex EXCEPT ![index] = w]
           /\ workers' = [workers EXCEPT
                 ![w].holds = index,
                 ![w].cursor = index + 1,
                 ![w].elo_differences = Append(@,
                     [index |-> index,
                      diff |-> Abs(workers[w].chosen_elo - agents[index].elo)])]
    /\ UNCHANGED <<agents, main_pc, play_args, roster_mutex, ledger>>

\* faulty variant: the guard of the roster lock outlives the matchmaking block
PickKeepsRosterLock(w) ==
    /\ At(w, "read_other")
    /\ workers[w].holds = Free
    /\ NextOther(w) >= RosterSize
    /\ \E shuffled \in Shuffles(workers[w].elo_differences) :
          workers' = [workers EXCEPT
              ![w].pc = "seat",
              ![w].agents_game = TableOf(SortByDiffAsc(shuffled), workers[w].agent_index),
              ![w].chosen_elo = 0,
              ![w].elo_differences = <<>>,
              ![w].cursor = 0,
              ![w].indexes = <<>>,
              ![w].indexes_sorted = [i \in 1 .. player_count |-> i - 1]]
    /\ UNCHANGED <<agents, main_pc, play_args, mutex, roster_mutex, ledger>>

\* lines 159-173: shuffle, sort, take, push; the roster lock is dropped and
\* the locals of the block go out of scope
Pick(w) ==
    /\ At(w, "read_other")
    /\ workers[w].holds = Free
    /\ NextOther(w) >= RosterSize
    /\ \E shuffled \in Shuffles(workers[w].elo_differences) :
          workers' = [workers EXCEPT
              ![w].pc = "seat",
              ![w].agents_game = TableOf(SortByDiffAsc(shuffled), workers[w].agent_index),
              ![w].chosen_elo = 0,
              ![w].elo_differences = <<>>,
              ![w].cursor = 0,
              ![w].indexes = <<>>,
              ![w].indexes_sorted = [i \in 1 .. player_count |-> i - 1]]
    /\ roster_mutex' = Free
    /\ UNCHANGED <<agents, main_pc, play_args, mutex, ledger>>

Remove(seq, k) == SubSeq(seq, 1, k - 1) \o SubSeq(seq, k + 1, Len(seq))

\* lines 180-188: one round of the seating loop
Seat(w) ==
    /\ At(w, "seat")
    /\ workers[w].holds = Free
    /\ Len(workers[w].indexes) < player_count
    /\ \E vec_index \in 1 .. Len(workers[w].indexes_sorted) :
          LET agent_index == workers[w].indexes_sorted[vec_index]
          IN  IF agent_index >= Len(workers[w].agents_game)
              THEN /\ workers' = [workers EXCEPT ![w].pc = "panicked"]
                   /\ UNCHANGED mutex
              ELSE LET record == workers[w].agents_game[agent_index + 1]
                   IN  /\ mutex[record] = Free
                       /\ mutex' = [mutex EXCEPT ![record] = w]
                       /\ workers' = [workers EXCEPT
                             ![w].holds = record,
                             ![w].indexes = Append(@, agent_index),
                             ![w].indexes_sorted = Remove(@, vec_index)]
    /\ UNCHANGED <<agents, main_pc, play_args, roster_mutex, ledger>>

\* faulty variant: total_won[p] += rewards[p], the seating is forgotten
TotalWonByPosition(indexes, rewards) ==
    [i \in 1 .. Len(indexes) |-> rewards[i]]

\* lines 199-201: total_won[indexes[p]] += rewards[p]
TotalWon(indexes, rewards) ==
    [i \in 1 .. Len(indexes) |->
        LET p == CHOOSE q \in 1 .. Len(indexes) : indexes[q] = i - 1
        IN  rewards[p]]

\* the seating loop is over and no guard of it is left
Seated(w) ==
    /\ At(w, "seat")
    /\ workers[w].holds = Free
    /\ Len(workers[w].indexes) = player_count

\* lines 192-202: the hand is played and its rewards go to the table
PlayOneHand(w) ==
    /\ Seated(w)
    /\ \E rewards \in Rewards :
          workers' = [workers EXCEPT
              ![w].pc = "try_lock",
              ![w].total_won = TotalWon(workers[w].indexes, rewards),
              ![w].indexes = <<>>,
              ![w].indexes_sorted = <<>>,
              ![w].agents_locked = <<>>,
              ![w].cursor = 0]
    /\ ledger' = [ledger EXCEPT !.hands =
          [k \in DOMAIN @ |->
              @[k] + Cardinality({i \in 1 .. Len(workers[w].agents_game) :
                                    workers[w].agents_game[i] = k})]]
    /\ UNCHANGED <<agents, main_pc, play_args, mutex, roster_mutex>>

\* faulty variant: the hand is played, and fails, inside the seating loop
\* while the guard of the last seat is alive
PlayOneHandFailsSeating(w) ==
    /\ At(w, "seat")
    /\ workers[w].holds # Free
    /\ Len(workers[w].indexes) = player_count
    /\ workers' = [workers EXCEPT ![w].pc = "panicked"]
    /\ ledger' = [ledger EXCEPT !.failed = TRUE]
    /\ UNCHANGED <<agents, main_pc, play_args, mutex, roster_mutex>>

\* line 197: play_one_hand returned Err and the worker panics
PlayOneHandFails(w) ==
    /\ Seated(w)
    /\ workers' = [workers EXCEPT ![w].pc = "panicked"]
    /\ ledger' = [ledger EXCEPT !.failed = TRUE]
    /\ UNCHANGED <<agents, main_pc, play_args, mutex, roster_mutex>>

\* faulty variant: lock() in place of try_lock(), which never answers WouldBlock
WouldBlockNever(holder) == FALSE

\* faulty variant: the loop is left with at most the whole table locked
AllLockedOrFewer(agents_locked, agents_game) == Len(agents_locked) <= Len(agents_game)

\* line 212: try_lock answers WouldBlock
WouldBlock(holder) == holder # Free

\* line 220: every Mutex of the table is locked
AllLocked(agents_locked, agents_game) == Len(agents_locked) = Len(agents_game)

\* lines 209-222: one try_lock of the for loop
TryLock(w) ==
    /\ At(w, "try_lock")
    /\ LET record == workers[w].agents_game[workers[w].cursor + 1]
       IN  IF WouldBlock(mutex[record])
           THEN /\ workers' = [workers EXCEPT ![w].pc = "clear"]
                /\ UNCHANGED mutex
           ELSE /\ mutex[record] = Free
                /\ mutex' = [mutex EXCEPT ![record] = w]
                /\ LET locked == Append(workers[w].agents_locked, record)
                       last   == workers[w].cursor + 1 = Len(workers[w].agents_game)
                   IN  workers' = [workers EXCEPT
                          ![w].agents_locked = locked,
                          ![w].cursor = @ + 1,
                          ![w].pc = IF ~last THEN "try_lock"
                                    ELSE IF AllLocked(locked, workers[w].agents_game)
                                    THEN "compute" ELSE "try_lock"]
    /\ UNCHANGED <<agents, main_pc, play_args, roster_mutex, ledger>>

\* the locks the guards of agents_locked hold
Unlocked(w) ==
    [k \in DOMAIN mutex |->
        IF \E i \in 1 .. Len(workers[w].agents_locked) : workers[w].agents_locked[i] = k
        THEN Free ELSE mutex[k]]

\* line 213: agents_locked.clear()
Clear(w) ==
    /\ At(w, "clear")
    /\ mutex' = Unlocked(w)
    /\ workers' = [workers EXCEPT ![w].pc = "sleep", ![w].agents_locked = <<>>]
    /\ UNCHANGED <<agents, main_pc, play_args, roster_mutex, ledger>>

\* lines 214-222: the backoff, then the for loop starts over
Sleep(w) ==
    /\ At(w, "sleep")
    /\ workers' = [workers EXCEPT
          ![w].pc = IF AllLocked(workers[w].agents_locked, workers[w].agents_game)
                    THEN "compute" ELSE "try_lock",
          ![w].cursor = 0]
    /\ UNCHANGED <<agents, main_pc, play_args, mutex, roster_mutex, ledger>>

\* lines 226-298: the deltas, read from the locked records
Compute(w) ==
    /\ At(w, "compute")
    /\ LET table == workers[w].agents_game
           diffs == EloDiffs([i \in 1 .. Len(table) |-> agents[table[i]]],
                             workers[w].total_won, action_config.buy_in)
       IN  /\ workers' = [workers EXCEPT ![w].pc = "update", ![w].cursor = 0,
                                         ![w].elo_diff = diffs]
           /\ ledger' = [ledger EXCEPT !.delta =
                 [k \in DOMAIN @ |->
                     @[k] + SumOver([i \in 1 .. Len(table) |->
                                       IF table[i] = k THEN diffs[i] ELSE 0],
                                    1 .. Len(table))]]
    /\ UNCHANGED <<agents, main_pc, play_args, mutex, roster_mutex>>

\* lines 301-307: one round of the update loop
Update(w) ==
    /\ At(w, "update")
    /\ workers[w].cursor < player_count
    /\ LET i == workers[w].cursor + 1
           record == workers[w].agents_locked[i]
       IN  agents' = [agents EXCEPT ![record] = Updated(@, workers[w].elo_diff[i])]
    /\ workers' = [workers EXCEPT ![w].cursor = @ + 1]
    /\ UNCHANGED <<main_pc, play_args, mutex, roster_mutex, ledger>>

\* lines 132-133: the next hand of the worker, or the end of its loops
NextHand(w) ==
    LET me    == workers[w]
        start == BatchStart(w, play_args.batch_size)
        end   == BatchEnd(w, play_args.batch_size, RosterSize)
    IN  IF me.agent_index + 1 < end THEN StartHand(w, me.round, me.agent_index + 1)
        ELSE IF me.round + 1 < play_args.rounds THEN StartHand(w, me.round + 1, start)
        ELSE IdleWorker

\* line 308: agents_locked goes out of scope
Release(w) ==
    /\ At(w, "update")
    /\ workers[w].cursor = player_count
    /\ mutex' = Unlocked(w)
    /\ workers' = [workers EXCEPT ![w] = NextHand(w)]
    /\ UNCHANGED <<agents, main_pc, play_args, roster_mutex, ledger>>

\* faulty variant: a record at Elo 0 is dropped too
RetainedPositive(agent) == agent.elo > 0

\* line 317: the records retain keeps
Retained(agent) == agent.elo >= 0

\* lines 314-321: join, drop the negative records, sort
play_returns ==
    /\ main_pc = "playing"
    /\ \A w \in Workers : workers[w].pc \in {"done", "panicked"}
    /\ agents' = AsRoster(SortByEloDesc(SelectSeq(AsSeq(agents), Retained)))
    /\ main_pc' = "returned"
    /\ UNCHANGED <<play_args, mutex, roster_mutex, workers, ledger>>

WorkerStep(w) ==
    \/ LockRoster(w)
    \/ ReadChosen(w)
    \/ DropGuard(w)
    \/ ReadOther(w)
    \/ Pick(w)
    \/ Seat(w)
    \/ PlayOneHand(w)
    \/ PlayOneHandFails(w)
    \/ TryLock(w)
    \/ Clear(w)
    \/ Sleep(w)
    \/ Compute(w)
    \/ Update(w)
    \/ Release(w)

\* the rosters play() is called on: fresh from add_agent, and loaded
Rosters ==
    { AsRoster(<<NewAgent(<<"a">>, 1), NewAgent(<<"a">>, 2), NewAgent(<<"a">>, 3)>>) }

vars == <<gameVars, tournVars, apiVars>>

GameIdle ==
    /\ action_config = CHOOSE c \in Configs : c.player_count = 2
    /\ state_data = Root(action_config)
    /\ node_type = "Play"
    /\ children = <<>>
    /\ valid_actions_mask = <<>>
    /\ outcome = "running"
    /\ expansions = 0

\* nothing saved yet and no call made
ApiIdle ==
    /\ file = <<>>
    /\ saved = [written |-> FALSE, roster |-> <<>>]
    /\ call = [op |-> "none", before |-> <<>>, arg |-> <<>>, result |-> <<>>]

TournIdle ==
    /\ agents = <<>>
    /\ main_pc = "idle"
    /\ play_args = [n_workers |-> 0, rounds |-> 0, batch_size |-> 0]
    /\ mutex = <<>>
    /\ roster_mutex = Free
    /\ workers = <<>>
    /\ ledger = [start |-> <<>>, hands |-> <<>>, delta |-> <<>>, failed |-> FALSE]

TournInit ==
    /\ agents \in Rosters
    /\ main_pc = "ready"
    /\ play_args = [n_workers |-> 0, rounds |-> 0, batch_size |-> 0]
    /\ mutex = [k \in DOMAIN agents |-> Free]
    /\ roster_mutex = Free
    /\ workers = <<>>
    /\ ledger = [start |-> agents, hands |-> [k \in DOMAIN agents |-> 0],
                 delta |-> [k \in DOMAIN agents |-> 0], failed |-> FALSE]

TournNext ==
    \/ \E total_hands \in 0 .. MaxTotalHands, n_workers \in 1 .. MaxWorkers :
          play(total_hands, n_workers)
    \/ \E w \in Workers : WorkerStep(w)
    \/ play_returns

\* One hand walking the game tree.
Init == GameInit /\ TournIdle /\ ApiIdle

Spec == Init /\ [][GameNext /\ UNCHANGED <<tournVars, apiVars>>]_vars

\* One call of Tournament::play.
TournamentInit == GameIdle /\ TournInit /\ ApiIdle

TournamentSpec == TournamentInit /\ [][TournNext /\ UNCHANGED <<gameVars, apiVars>>]_vars

\* One call of Tournament::play under fair scheduling: the thread calling
\* play() and every worker thread keep taking steps while they can.
FairTournamentSpec ==
    /\ TournamentSpec
    /\ WF_vars(TournNext /\ UNCHANGED <<gameVars, apiVars>>)
    /\ \A w \in 0 .. MaxWorkers - 1 : WF_vars(WorkerStep(w) /\ UNCHANGED <<gameVars, apiVars>>)

\* ---- the rating update of one hand, on records and rewards of any kind

\* Tournament::new(player_count, action_config, ..): a heads-up and a
\* three-handed tournament on the stakes of main.rs
RatingConfigs ==
    { [MainConfig EXCEPT !.player_count = 2], MainConfig }

\* hands_played and over_max_rating of a record, as load_state can set them
RatingClasses ==
    { <<0, FALSE>>, <<100000, FALSE>>, <<100001, FALSE>>,
      <<0, TRUE>>, <<100001, TRUE>> }

LoadedAgent(iteration, elo, class) ==
    [NewAgent(<<"a">>, iteration) EXCEPT !.elo = elo, !.hands_played = class[1],
                                       !.over_max_rating = class[2]]

\* the Elos of a heads-up table: the first record near 0, at the start value
\* and around 2400, the second at or above it
RatingElos ==
    { <<a * EloUnit, (a + d) * EloUnit>> :
        a \in {10, 20, 1400, 2380, 2390, 2405}, d \in {0, 50, 200} }

\* the rosters load_state can build for a table of n seats
RatingRosters(n) ==
    IF n = 2
    THEN { AsRoster(<<LoadedAgent(1, e[1], c1), LoadedAgent(2, e[2], c2)>>) :
             e \in RatingElos, c1 \in RatingClasses, c2 \in RatingClasses }
    ELSE { AsRoster(<<LoadedAgent(1, 1400 * EloUnit, c1),
                      LoadedAgent(2, 1450 * EloUnit, c2),
                      LoadedAgent(3, 1400 * EloUnit, <<0, FALSE>>)>>) :
             c1 \in RatingClasses, c2 \in {<<0, FALSE>>, <<100001, FALSE>>} }

\* total_won of a hand by table position: the chips sum to zero and nobody
\* wins or loses more than the buy-in
RatingRewards(n, b) ==
    LET third == b \div 3
        half  == b \div 2
    IN  IF n = 2
        THEN { <<x, -x>> : x \in {-b, -third, 0, third, b} }
        ELSE { <<x, y, -(x + y)>> :
                 x \in {-b, -2 * third, -half, -third, 0, third, half, 2 * third, b},
                 y \in {-2 * third, -half, -third, 0, third, half, 2 * third} }
             \cap { won \in [1 .. 3 -> -b .. b] : TRUE }

\* lines 205-224: the worker of a one-worker run is at the last hand of its
\* batch and has locked every record of its table
RatingInit ==
    /\ action_config \in RatingConfigs
    /\ state_data = Root(action_config)
    /\ node_type = "Play"
    /\ children = <<>>
    /\ valid_actions_mask = <<>>
    /\ outcome = "running"
    /\ expansions = 0
    /\ \E cfg \in {action_config} :
       \E roster \in RatingRosters(cfg.player_count) :
       \E won \in RatingRewards(cfg.player_count, cfg.buy_in) :
          LET n == cfg.player_count
              table == [i \in 1 .. n |-> i - 1]
          IN  /\ agents = roster
              /\ play_args = [n_workers |-> 1, rounds |-> 1, batch_size |-> n]
              /\ mutex = [k \in DOMAIN roster |-> 0]
              /\ workers = [w \in {0} |->
                    [IdleWorker EXCEPT !.pc = "compute", !.agent_index = n - 1,
                                       !.agents_game = table, !.agents_locked = table,
                                       !.total_won = won]]
              /\ ledger = [start |-> roster, hands |-> [k \in DOMAIN roster |-> 0],
                            delta |-> [k \in DOMAIN roster |-> 0], failed |-> FALSE]
    /\ main_pc = "playing"
    /\ roster_mutex = Free
    /\ ApiIdle

RatingNext ==
    \/ \E w \in Workers : Compute(w)
    \/ \E w \in Workers : Update(w)
    \/ \E w \in Workers : Release(w)
    \/ play_returns

\* The rating update of one hand and the end of play().
RatingSpec == RatingInit /\ [][RatingNext /\ UNCHANGED <<gameVars, apiVars>>]_vars

\* ---- the matchmaking of one hand, on rosters of any Elo

\* four-record rosters at play(): Elos spread out, evenly spaced (two
\* candidates at one distance from a record between them), fresh from
\* add_agent, and two pairs
MatchRosters ==
    { AsRoster([i \in 1 .. 4 |-> LoadedAgent(i, elos[i] * EloUnit, <<0, FALSE>>)]) :
        elos \in { <<1400, 1450, 1530, 1700>>, <<1700, 1360, 1400, 1390>>,
                   <<1300, 1400, 1500, 1600>>, <<1400, 1400, 1400, 1400>>,
                   <<1500, 1500, 1380, 1380>> } }

\* a worker of play() at the top of its loop body, line 135, on any record
MatchInit ==
    /\ action_config \in RatingConfigs
    /\ state_data = Root(action_config)
    /\ node_type = "Play"
    /\ children = <<>>
    /\ valid_actions_mask = <<>>
    /\ outcome = "running"
    /\ expansions = 0
    /\ agents \in MatchRosters
    /\ main_pc = "playing"
    /\ play_args = [n_workers |-> 1, rounds |-> 1, batch_size |-> 4]
    /\ mutex = [k \in DOMAIN agents |-> Free]
    /\ roster_mutex = Free
    /\ \E agent_index \in DOMAIN agents :
          workers = [w \in {0} |-> StartHand(0, 0, agent_index)]
    /\ ledger = [start |-> agents, hands |-> [k \in DOMAIN agents |-> 0],
                 delta |-> [k \in DOMAIN agents |-> 0], failed |-> FALSE]
    /\ ApiIdle

MatchNext ==
    \/ \E w \in Workers : LockRoster(w)
    \/ \E w \in Workers : ReadChosen(w)
    \/ \E w \in Workers : DropGuard(w)
    \/ \E w \in Workers : ReadOther(w)
    \/ \E w \in Workers : Pick(w)

\* The block of lines 139-173 for one hand.
MatchSpec == MatchInit /\ [][MatchNext /\ UNCHANGED <<gameVars, apiVars>>]_vars

\* ---- play() on rosters no larger than the table

\* rosters fresh from add_agent with fewer records than seats, and with as
\* many records as seats
ShortRosters ==
    { AsRoster([i \in 1 .. n |-> NewAgent(<<"a">>, i)]) : n \in 1 .. 2 }

TableInit ==
    /\ GameIdle
    /\ agents \in ShortRosters
    /\ main_pc = "ready"
    /\ play_args = [n_workers |-> 0, rounds |-> 0, batch_size |-> 0]
    /\ mutex = [k \in DOMAIN agents |-> Free]
    /\ roster_mutex = Free
    /\ workers = <<>>
    /\ ledger = [start |-> agents, hands |-> [k \in DOMAIN agents |-> 0],
                 delta |-> [k \in DOMAIN agents |-> 0], failed |-> FALSE]
    /\ ApiIdle

\* One call of Tournament::play on a roster of one or two records.
TableSpec == TableInit /\ [][TournNext /\ UNCHANGED <<gameVars, apiVars>>]_vars

\* ---- text: what format! writes and what split and parse read back

Digit == <<"0", "1", "2", "3", "4", "5", "6", "7", "8", "9">>

RECURSIVE Digits(_)
\* "{}" of an unsigned integer
Digits(n) ==
    IF n < 10 THEN <<Digit[n + 1]>>
    ELSE Digits(n \div 10) \o <<Digit[(n % 10) + 1]>>

RECURSIVE Value(_)
\* the number a string of digits stands for
Value(s) ==
    IF s = <<>> THEN 0
    ELSE Value(SubSeq(s, 1, Len(s) - 1)) * 10
             + (CHOOSE d \in 0 .. 9 : Digit[d + 1] = s[Len(s)])

\* a string parse::<u32>() takes: digits only, and at least one
AllDigits(s) ==
    /\ s # <<>>
    /\ Len(s) <= 9
    /\ \A i \in 1 .. Len(s) : \E d \in 1 .. 10 : Digit[d] = s[i]

\* parse::<u32>() and parse::<usize>() of a field; ok is FALSE for Err
ParseUnsigned(s) ==
    IF AllDigits(s) THEN [ok |-> TRUE, value |-> Value(s)]
    ELSE [ok |-> FALSE, value |-> 0]

\* "{}" of a bool
FormatBool(b) == IF b THEN <<"t", "r", "u", "e">> ELSE <<"f", "a", "l", "s", "e">>

\* parse::<bool>() of a field
ParseBool(s) ==
    IF s = FormatBool(TRUE) THEN [ok |-> TRUE, value |-> TRUE]
    ELSE IF s = FormatBool(FALSE) THEN [ok |-> TRUE, value |-> FALSE]
    ELSE [ok |-> FALSE, value |-> 0]

\* "{}" of an f32 Elo (kept in hundredths): the shortest decimal that reads
\* back as the same value
FormatElo(elo) ==
    LET whole == Abs(elo) \div EloUnit
        frac  == Abs(elo) % EloUnit
        sign  == IF elo < 0 THEN <<"-">> ELSE <<>>
        tail  == IF frac = 0 THEN <<>>
                 ELSE IF frac % 10 = 0 THEN <<".", Digit[(frac \div 10) + 1]>>
                 ELSE <<".", Digit[(frac \div 10) + 1], Digit[(frac % 10) + 1]>>
    IN  sign \o Digits(whole) \o tail

RECURSIVE Split(_, _)
\* str::split(sep): the pieces between the separators, empty ones included
Split(s, sep) ==
    IF \A i \in 1 .. Len(s) : s[i] # sep THEN <<s>>
    ELSE LET i == CHOOSE k \in 1 .. Len(s) :
                      s[k] = sep /\ \A j \in 1 .. k - 1 : s[j] # sep
         IN  <<SubSeq(s, 1, i - 1)>> \o Split(SubSeq(s, i + 1, Len(s)), sep)

\* parse::<f32>() of a field, for decimals of up to two places
ParseElo(s) ==
    LET negative == s # <<>> /\ s[1] = "-"
        digits   == IF negative THEN Tail(s) ELSE s
        pieces   == Split(digits, ".")
        sign     == IF negative THEN -1 ELSE 1
    IN  IF Len(pieces) = 1 /\ AllDigits(pieces[1])
        THEN [ok |-> TRUE, value |-> sign * Value(pieces[1]) * EloUnit]
        ELSE IF Len(pieces) = 2 /\ AllDigits(pieces[1]) /\ AllDigits(pieces[2])
                              /\ Len(pieces[2]) <= 2
        THEN [ok |-> TRUE,
              value |-> sign * (Value(pieces[1]) * EloUnit
                          + (IF Len(pieces[2]) = 1 THEN 10 ELSE 1) * Value(pieces[2]))]
        ELSE [ok |-> FALSE, value |-> 0]

\* str::lines(): the pieces between line feeds; a final empty piece is no line
Lines(text) ==
    LET pieces == Split(text, "\n")
    IN  IF pieces[Len(pieces)] = <<>> THEN SubSeq(pieces, 1, Len(pieces) - 1)
        ELSE pieces

\* lines 343-350: the line save_state writes for a record
FormatLine(agent) ==
    Digits(agent.iteration) \o <<";">> \o FormatElo(agent.elo) \o <<";">>
        \o agent.network_file \o <<";">> \o Digits(agent.hands_played) \o <<";">>
        \o FormatBool(agent.over_max_rating) \o <<"\n">>

RECURSIVE SaveText(_)
\* lines 341-353: the contents save_state leaves in the file
SaveText(roster) ==
    IF roster = <<>> THEN <<>>
    ELSE FormatLine(Head(roster)) \o SaveText(Tail(roster))

\* ---- the calls on a Tournament outside play()

\* lines 54-61: PokerNetwork::new and load_var_map both return Ok, which
\* they do for the network files that can be read
LoadVarMap(network_file) ==
    network_file \in { <<"a">>, <<"b">>, <<"b", ";", "a">>,
                      <<"a", ";", "7", ";", "t", "r", "u", "e">> }

\* faulty variant: the new record is put in front of the roster
AddedInFront(roster, network_file, iteration) ==
    IF LoadVarMap(network_file)
    THEN [ok |-> TRUE, roster |-> <<NewAgent(network_file, iteration)>> \o roster]
    ELSE [ok |-> FALSE, roster |-> roster]

\* lines 50-73: the roster after add_agent, and whether it returned Ok
Added(roster, network_file, iteration) ==
    IF LoadVarMap(network_file)
    THEN [ok |-> TRUE, roster |-> Append(roster, NewAgent(network_file, iteration))]
    ELSE [ok |-> FALSE, roster |-> roster]

\* faulty variant: the first cnt records are taken as they stand
BestUnsorted(roster, cnt) ==
    [roster |-> roster,
     result |-> [i \in 1 .. Min(cnt, Len(roster)) |-> roster[i].agent_network]]

\* lines 75-94: the roster after get_best_agents(cnt), and what it returns
Best(roster, cnt) ==
    IF Len(roster) > cnt
    THEN LET sorted == SortByEloDesc(roster)
         IN  [roster |-> sorted,
              result |-> [i \in 1 .. cnt |-> sorted[i].agent_network]]
    ELSE [roster |-> roster,
          result |-> [i \in 1 .. Len(roster) |-> roster[i].agent_network]]

RECURSIVE LoadLines(_, _)
\* lines 362-383: the loop of load_state over the lines, up to its end or to
\* the first unwrap or index that panics; a line that passes is registered
\* with add_agent and the pushed record gets the values of the line
LoadLines(lines, roster) ==
    IF lines = <<>> THEN [panicked |-> FALSE, roster |-> roster]
    ELSE LET parts     == Split(Head(lines), ";")
             iteration == ParseUnsigned(parts[1])
             elo       == ParseElo(parts[2])
             hands_played ==
                 IF Len(parts) > 3 THEN ParseUnsigned(parts[4])
                 ELSE [ok |-> TRUE, value |-> 0]
             over_max_rating ==
                 IF Len(parts) > 4 THEN ParseBool(parts[5])
                 ELSE [ok |-> TRUE, value |-> FALSE]
             added     == Added(roster, parts[3], iteration.value)
             panic     == [panicked |-> TRUE, roster |-> roster]
         IN  IF ~iteration.ok THEN panic
             ELSE IF Len(parts) < 2 THEN panic
             ELSE IF ~elo.ok THEN panic
             ELSE IF Len(parts) < 3 THEN panic
             ELSE IF ~hands_played.ok THEN panic
             ELSE IF ~over_max_rating.ok THEN panic
             ELSE IF ~added.ok THEN panic
             ELSE LoadLines(Tail(lines),
                      [added.roster EXCEPT ![Len(added.roster)] =
                          [@ EXCEPT !.elo = elo.value,
                                    !.hands_played = hands_played.value,
                                    !.over_max_rating = over_max_rating.value]])

\* a call on the Tournament: what it was, the roster it found, its argument
\* and what it returned
Called(op, arg, result) ==
    [op |-> op, before |-> agents, arg |-> arg, result |-> result]

\* Tournament::new, lines 41-48
Tournament_new ==
    /\ main_pc = "idle"
    /\ agents' = <<>>
    /\ mutex' = <<>>
    /\ call' = Called("new", <<>>, "Ok")
    /\ UNCHANGED <<main_pc, play_args, roster_mutex, workers, ledger, file, saved>>

\* Tournament::add_agent, lines 50-73
add_agent(network_file, iteration) ==
    /\ main_pc = "idle"
    /\ RosterSize < MaxRoster
    /\ LET added == Added(AsSeq(agents), network_file, iteration)
       IN  /\ agents' = AsRoster(added.roster)
           /\ mutex' = [k \in 0 .. Len(added.roster) - 1 |-> Free]
           /\ call' = Called("add_agent", <<network_file, iteration>>,
                             IF added.ok THEN "Ok" ELSE "Err")
    /\ UNCHANGED <<main_pc, play_args, roster_mutex, workers, ledger, file, saved>>

\* Tournament::get_best_agents, lines 75-94
get_best_agents(cnt) ==
    /\ main_pc = "idle"
    /\ LET best == Best(AsSeq(agents), cnt)
       IN  /\ agents' = AsRoster(best.roster)
           /\ call' = Called("get_best_agents", cnt, best.result)
    /\ UNCHANGED <<main_pc, play_args, mutex, roster_mutex, workers, ledger, file, saved>>

\* Tournament::save_state, lines 338-354
save_state ==
    /\ main_pc = "idle"
    /\ file' = SaveText(AsSeq(agents))
    /\ saved' = [written |-> TRUE, roster |-> agents]
    /\ call' = Called("save_state", <<>>, "Ok")
    /\ UNCHANGED <<agents, main_pc, play_args, mutex, roster_mutex, workers, ledger>>

\* Tournament::load_state, lines 356-384
load_state ==
    /\ main_pc = "idle"
    /\ RosterSize + Len(Lines(file)) <= MaxRoster
    /\ LET loaded == LoadLines(Lines(file), AsSeq(agents))
       IN  /\ agents' = AsRoster(loaded.roster)
           /\ mutex' = [k \in 0 .. Len(loaded.roster) - 1 |-> Free]
           /\ main_pc' = IF loaded.panicked THEN "panicked" ELSE "idle"
           /\ call' = Called("load_state", <<>>,
                             IF loaded.panicked THEN "panic" ELSE "Ok")
    /\ UNCHANGED <<play_args, roster_mutex, workers, ledger, file, saved>>

\* the rosters the calls start from: empty, and rosters play() has rated
ApiRosters ==
    { <<>>,
      AsRoster(<<LoadedAgent(1, 1400 * EloUnit, <<3, FALSE>>),
                 LoadedAgent(2, 1523 * EloUnit, <<3, FALSE>>)>>),
      AsRoster(<<LoadedAgent(1, 1390 * EloUnit, <<7, FALSE>>),
                 LoadedAgent(2, 2410 * EloUnit, <<7, TRUE>>),
                 LoadedAgent(3, 1390 * EloUnit, <<5, FALSE>>)>>),
      AsRoster(<<LoadedAgent(3, 2000 * EloUnit, <<9, TRUE>>),
                 LoadedAgent(2, 1500 * EloUnit, <<9, FALSE>>),
                 LoadedAgent(1, 1000 * EloUnit, <<9, FALSE>>)>>) }

RosterInit ==
    /\ GameIdle
    /\ agents \in ApiRosters
    /\ main_pc = "idle"
    /\ play_args = [n_workers |-> 0, rounds |-> 0, batch_size |-> 0]
    /\ mutex = [k \in DOMAIN agents |-> Free]
    /\ roster_mutex = Free
    /\ workers = <<>>
    /\ ledger = [start |-> <<>>, hands |-> <<>>, delta |-> <<>>, failed |-> FALSE]
    /\ ApiIdle

\* add_agent is called with two network files that load and one that does
\* not
RosterNext ==
    \/ Tournament_new
    \/ \E network_file \in { <<"a">>, <<"b">>, <<"c">> }, iteration \in 1 .. 2 :
          add_agent(network_file, iteration)
    \/ \E cnt \in 0 .. MaxRoster : get_best_agents(cnt)

\* The roster under add_agent and get_best_agents.
RosterSpec == RosterInit /\ [][RosterNext /\ UNCHANGED gameVars]_vars

\* ---- save_state and load_state, on rosters and files of any kind

\* a record as play() or load_state leaves it
Rated(network_file, iteration, elo, hands_played, over_max_rating) ==
    [NewAgent(network_file, iteration) EXCEPT
        !.elo = elo, !.hands_played = hands_played,
        !.over_max_rating = over_max_rating]

\* the rosters save_state is called on: empty, fresh, rated, and rated with
\* network files whose names hold a ';'
PersistRosters ==
    { <<>>,
      AsRoster(<<NewAgent(<<"a">>, 1)>>),
      AsRoster(<<Rated(<<"a">>, 2, 138725, 12, TRUE),
                 Rated(<<"b">>, 1, 50, 3, FALSE)>>),
      AsRoster(<<Rated(<<"a">>, 1, 152310, 100001, FALSE),
                 Rated(<<"b", ";", "a">>, 2, 1400 * EloUnit, 5, FALSE)>>),
      AsRoster(<<Rated(<<"a", ";", "7", ";", "t", "r", "u", "e">>, 3, 1400 * EloUnit,
                       2, FALSE)>>) }

\* the files load_state finds: none written yet, one in the three-field
\* format, one with a negative Elo, and files whose second line is malformed
\* (iteration, missing field, flag) or names a network file that does not
\* load
Files ==
    LET good == <<"2", ";", "1", "5", "0", "0", ";", "a", ";", "4", ";",
                  "t", "r", "u", "e", "\n">>
    IN  { <<>>,
          <<"1", ";", "1", "4", "0", "0", ";", "a", "\n">>,
          <<"1", ";", "-", "3", ".", "5", ";", "b", ";", "3", ";",
            "f", "a", "l", "s", "e", "\n">>,
          good \o <<"x", ";", "1", "4", "0", "0", ";", "a", ";", "0", ";",
                    "f", "a", "l", "s", "e", "\n">>,
          good \o <<"1", ";", "1", "4", "0", "0", "\n">>,
          good \o <<"1", ";", "1", "4", "0", "0", ";", "a", ";", "0", ";", "1", "\n">>,
          good \o <<"1", ";", "1", "4", "0", "0", ";", "c", ";", "0", ";",
                    "f", "a", "l", "s", "e", "\n">> }

PersistInit ==
    /\ GameIdle
    /\ agents \in PersistRosters
    /\ main_pc = "idle"
    /\ play_args = [n_workers |-> 0, rounds |-> 0, batch_size |-> 0]
    /\ mutex = [k \in DOMAIN agents |-> Free]
    /\ roster_mutex = Free
    /\ workers = <<>>
    /\ ledger = [start |-> <<>>, hands |-> <<>>, delta |-> <<>>, failed |-> FALSE]
    /\ file \in Files
    /\ saved = [written |-> FALSE, roster |-> <<>>]
    /\ call = [op |-> "none", before |-> <<>>, arg |-> <<>>, result |-> <<>>]

PersistNext ==
    \/ save_state
    \/ Tournament_new
    \/ load_state

\* The roster under save_state and load_state.
PersistSpec == PersistInit /\ [][PersistNext /\ UNCHANGED gameVars]_vars

\* ---- the agents choosing an action (agent_random.rs, agent_network.rs)

\* a probability is a number of quarters; so is the random float in [0, 1)
WeightUnit == 4

\* mask[i] of the code (indices from 0); FALSE stands for out of range
MaskAt(mask, i) == i < Len(mask) /\ mask[i + 1]

\* lines 48-72: the entries that are not legal are set to 0.0 (under
\* no_invalid), then the distribution, as numerators over one denominator:
\* divided by the sum when it is positive, else 1 / true_count on the legal
\* entries and the other entries left as they are
Normalised(probas, mask, no_invalid) ==
    LET zeroed == [i \in 1 .. Len(probas) |->
                      IF no_invalid /\ ~MaskAt(mask, i - 1) THEN 0 ELSE probas[i]]
        sum    == SumOver(zeroed, 1 .. Len(zeroed))
        count  == IF no_invalid THEN Cardinality({i \in 1 .. Len(mask) : mask[i]})
                  ELSE Len(probas)
        legal  == \E i \in 1 .. Len(zeroed) : MaskAt(mask, i - 1)
    IN  IF sum > 0 THEN [num |-> zeroed, den |-> sum]
        ELSE IF ~legal THEN [num |-> zeroed, den |-> WeightUnit]
        ELSE [num |-> [i \in 1 .. Len(zeroed) |->
                          IF MaskAt(mask, i - 1) THEN WeightUnit ELSE zeroed[i] * count],
              den |-> count * WeightUnit]

\* lines 77-85: the first index at which the running sum passes the random
\* float, 0 when none does
Drawn(dist, random) ==
    LET Passed(i) == SumOver(dist.num, 1 .. i) * WeightUnit > random * dist.den
    IN  IF \E i \in 1 .. Len(dist.num) : Passed(i)
        THEN (CHOOSE i \in 1 .. Len(dist.num) :
                 Passed(i) /\ \A j \in 1 .. i - 1 : ~Passed(j)) - 1
        ELSE 0

\* faulty variant: the check of the chosen index is left out
InvalidNever(action_index, mask, no_invalid) == FALSE

\* lines 87-88: the chosen index is refused
Invalid(action_index, mask, no_invalid) ==
    no_invalid /\ (action_index >= Len(mask) \/ ~MaskAt(mask, action_index))

\* where an agent call is ("called", "running", "returned", "panicked"), what
\* it returned ("Ok", "Err") and its action_index
Result(pc, kind, action_index) == [pc |-> pc, kind |-> kind, action_index |-> action_index]

\* AgentNetwork::choose_action_from_net, lines 41-96; squeeze and to_vec1
\* return Err on a tensor of another shape
choose_action_from_net ==
    /\ call.op = "choose_action_from_net"
    /\ call.result.pc = "called"
    /\ LET a == call.arg
           action_index == Drawn(Normalised(a.probas, a.mask, a.no_invalid), a.random)
       IN  call' = [call EXCEPT !.result =
                      IF ~a.shape_ok THEN Result("returned", "Err", 0)
                      ELSE IF Invalid(action_index, a.mask, a.no_invalid)
                      THEN Result("returned", "Err", 0)
                      ELSE Result("returned", "Ok", action_index)]
    /\ UNCHANGED <<tournVars, file, saved>>

\* AgentRandom::choose_action, lines 18 and 21: gen_range(0..len), which
\* panics on an empty range
gen_range ==
    /\ call.op = "choose_action"
    /\ \/ call.result.pc = "called"
       \/ call.result.pc = "running" /\ ~MaskAt(call.arg.mask, call.result.action_index)
    /\ IF call.arg.mask = <<>>
       THEN call' = [call EXCEPT !.result = Result("panicked", "none", 0)]
       ELSE \E action_index \in 0 .. Len(call.arg.mask) - 1 :
               call' = [call EXCEPT !.result = Result("running", "none", action_index)]
    /\ UNCHANGED <<tournVars, file, saved>>

\* AgentRandom::choose_action, lines 20-24: the loop ends and the index is
\* returned
choose_action_returns ==
    /\ call.op = "choose_action"
    /\ call.result.pc = "running"
    /\ MaskAt(call.arg.mask, call.result.action_index)
    /\ call' = [call EXCEPT !.result =
                      Result("returned", "Ok", call.result.action_index)]
    /\ UNCHANGED <<tournVars, file, saved>>

\* the calls made on the agents: every mask and every probability vector up
\* to the longest, every draw (the last one stands for a draw the rounded
\* running sum never passes)
AgentCalls ==
    LET Masks  == UNION {[1 .. n -> BOOLEAN] : n \in 0 .. MaxMask}
        Probas == UNION {[1 .. n -> {0, 1, 3}] : n \in 1 .. MaxMask}
    IN  { [op |-> "choose_action", before |-> <<>>, arg |-> [mask |-> mask],
           result |-> Result("called", "none", 0)] : mask \in Masks }
        \cup
        { [op |-> "choose_action_from_net", before |-> <<>>,
           arg |-> [probas |-> probas, mask |-> mask, no_invalid |-> no_invalid,
                    random |-> random, shape_ok |-> shape_ok],
           result |-> Result("called", "none", 0)] :
            probas \in Probas, mask \in Masks, no_invalid \in BOOLEAN,
            random \in 0 .. WeightUnit, shape_ok \in BOOLEAN }

AgentInit ==
    /\ GameIdle
    /\ TournIdle
    /\ file = <<>>
    /\ saved = [written |-> FALSE, roster |-> <<>>]
    /\ call \in AgentCalls

AgentNext ==
    \/ choose_action_from_net
    \/ gen_range
    \/ choose_action_returns

\* One call of an agent's choice of action.
AgentSpec == AgentInit /\ [][AgentNext /\ UNCHANGED gameVars]_vars

\* ------------------------------------------------------------------ claims

HasAction(sd, type) ==
    \E k \in 1 .. Len(sd.history) : sd.history[k].action_type = type

\* the current node is a Play node create_children has run on
Expanded == node_type = "Play" /\ children # <<>>

StartingStack(i) == Root(action_config).bets[i] + Root(action_config).stacks[i]

Conserved(sd) == \A i \in Seats(sd) : sd.bets[i] + sd.stacks[i] = StartingStack(i)

\* C1 -- chip conservation: in the ledger of every node the walk reaches and
\* of every child built for it, each seat's bet + stack is its starting stack.
C1_ChipConservation ==
    /\ Conserved(state_data)
    /\ \A k \in 1 .. Len(children) :
          children[k].type # "None" => Conserved(children[k].state_data)

\* a ledger reached through a call, a raise and an all-in
C1_Witness ==
    /\ HasAction(state_data, "Call")
    /\ HasAction(state_data, "Raise")
    /\ HasAction(state_data, "AllIn")
    /\ \E i \in Seats(state_data) : state_data.stacks[i] = 0

Running(w) == main_pc = "playing" /\ w \in Workers /\ workers[w].pc \notin {"done", "panicked"}

\* the records whose Mutex worker w holds
HeldBy(w) == {k \in DOMAIN mutex : mutex[k] = w}

\* the blocking lock() worker w is at can be taken now
LockAvailable(w) ==
    LET me == workers[w]
    IN  CASE me.pc = "lock_roster" -> roster_mutex = Free
          [] me.pc = "read_chosen" -> mutex[me.agent_index] = Free
          [] me.pc = "read_other"  ->
                NextOther(w) < RosterSize => mutex[NextOther(w)] = Free
          [] me.pc = "seat" ->
                Len(me.indexes) < player_count =>
                    \E v \in 1 .. Len(me.indexes_sorted) :
                        me.indexes_sorted[v] < Len(me.agents_game) =>
                            mutex[me.agents_game[me.indexes_sorted[v] + 1]] = Free
          [] me.pc = "try_lock" ->
                \/ WouldBlock(mutex[me.agents_game[me.cursor + 1]])
                \/ mutex[me.agents_game[me.cursor + 1]] = Free
          [] OTHER -> TRUE

\* worker w has a step to take: it has not finished, and it is dropping a
\* guard, past its locks, or at a lock() that is free
CanStep(w) == Running(w) /\ (workers[w].holds # Free \/ LockAvailable(w))

\* w is at a blocking lock() it cannot take now, or in its backoff sleep
Waiting(w) == At(w, "sleep") \/ (Running(w) /\ ~CanStep(w))

\* C2 -- deadlock freedom: while some worker has not finished some worker can
\* take a step, and a worker that waits (at a blocking lock or in the backoff
\* sleep) holds no rating-record lock.
C2_DeadlockFree ==
    /\ (\E w \in Workers : Running(w)) => (\E w \in Workers : CanStep(w))
    /\ \A w \in Workers : Waiting(w) => HeldBy(w) = {}

\* a worker sleeps after a failed try_lock while another holds records of
\* the same table for its update
C2_Witness ==
    \E w, v \in Workers :
        /\ w # v
        /\ At(w, "sleep")
        /\ At(v, "update")
        /\ \E i \in 1 .. Len(workers[w].agents_game) :
              workers[w].agents_game[i] \in HeldBy(v)

\* C3 -- termination of the lock-retry protocol: under fair scheduling every
\* worker that starts the rating update of a hand comes to hold the locks of
\* the whole table, and play() returns.
C3_Termination ==
    /\ \A w \in 0 .. MaxWorkers - 1 : At(w, "try_lock") ~> At(w, "compute")
    /\ <>(main_pc = "returned")

InUpdate(w) == At(w, "compute") \/ At(w, "update")

\* C4 -- per-hand atomicity: from the first read of the update to its last
\* write the worker holds the lock of every participant of its hand, and
\* the records it has locked are exactly its table.
C4_AtomicUpdate ==
    \A w \in Workers :
        InUpdate(w) =>
            /\ workers[w].agents_locked = workers[w].agents_game
            /\ \A i \in 1 .. Len(workers[w].agents_game) :
                  mutex[workers[w].agents_game[i]] = w

\* a worker is between the writes of its update while another worker waits
\* for one of its records
C4_Witness ==
    \E w, v \in Workers :
        /\ w # v
        /\ At(w, "update")
        /\ workers[w].cursor = 1
        /\ At(v, "try_lock")
        /\ workers[v].agents_game[workers[v].cursor + 1] \in HeldBy(w)

\* every worker has left its loops and none of them panicked
Joined ==
    /\ main_pc = "playing"
    /\ \A w \in Workers : workers[w].pc = "done"

\* C5 -- no lost updates: when the workers have finished without error, each
\* record's hands_played has grown by the number of hands it sat in, the
\* growth sums to seats x rounds x roster size, and each Elo is the starting
\* Elo plus the deltas computed for that record.
C5_NoLostUpdates ==
    Joined =>
        /\ \A k \in DOMAIN agents :
              /\ agents[k].hands_played = ledger.start[k].hands_played + ledger.hands[k]
              /\ agents[k].elo = ledger.start[k].elo + ledger.delta[k]
        /\ SumOver([k \in DOMAIN agents |->
                       agents[k].hands_played - ledger.start[k].hands_played],
                   DOMAIN agents)
             = player_count * play_args.rounds * RosterSize

\* play() with two workers has finished a round in which some record sat in
\* more than one hand and ratings moved
C5_Witness ==
    /\ Joined
    /\ play_args.n_workers = 2
    /\ play_args.rounds = 1
    /\ \E k \in DOMAIN agents : ledger.hands[k] >= 3
    /\ \E k \in DOMAIN agents : agents[k].elo # ledger.start[k].elo

\* slots of the mask: fold, call, one per ratio of the street's ladder, all-in
FoldSlot == 1

CallSlot == 2

RaiseSlot(i) == 2 + i

AllInSlot == Len(valid_actions_mask)

Ladder == Raises(action_config, state_data)

ToMove == state_data.player_to_move

\* the biggest bet over all seats exceeds x
SomeBetAbove(x) == \E j \in Seats(state_data) : state_data.bets[j] > x

\* the biggest bet over all seats
TopBet == CHOOSE b \in {state_data.bets[j] : j \in Seats(state_data)} : ~SomeBetAbove(b)

\* C6 -- mask shape: on every street, the mask and the children of an expanded
\* Play node have length 3 + number of postflop raise ratios, and some mask
\* entry is true.
C6_MaskShape ==
    Expanded =>
        /\ Len(valid_actions_mask) = 3 + Len(action_config.postflop_raise_sizes)
        /\ Len(children) = 3 + Len(action_config.postflop_raise_sizes)
        /\ \E k \in 1 .. Len(valid_actions_mask) : valid_actions_mask[k]

\* C7 -- fold legality: the fold entry of the mask is true exactly when the
\* biggest bet is strictly greater than the acting seat's bet.
C7_FoldLegality ==
    Expanded =>
        (valid_actions_mask[FoldSlot] <=> SomeBetAbove(state_data.bets[ToMove]))

\* a seat that faces no bet after the flop, so that it cannot fold
C7_Witness ==
    /\ Expanded
    /\ state_data.street >= 2
    /\ ~valid_actions_mask[FoldSlot]
    /\ \E k \in 1 .. Len(valid_actions_mask) : valid_actions_mask[k]

\* C8 -- call legality and effect: the call entry is true exactly when the
\* shortfall to the biggest bet is strictly less than the acting seat's stack;
\* in the call child the seat's bet is the biggest bet, its stack is smaller
\* by the shortfall and still positive, and no other seat's chips moved.
C8_Call ==
    Expanded =>
        LET shortfall == TopBet - state_data.bets[ToMove]
            child == children[CallSlot].state_data
        IN  /\ valid_actions_mask[CallSlot] <=> shortfall < state_data.stacks[ToMove]
            /\ valid_actions_mask[CallSlot] =>
                  /\ child.bets[ToMove] = TopBet
                  /\ child.stacks[ToMove] = state_data.stacks[ToMove] - shortfall
                  /\ child.stacks[ToMove] > 0
                  /\ \A j \in Seats(state_data) \ {ToMove} :
                        /\ child.bets[j] = state_data.bets[j]
                        /\ child.stacks[j] = state_data.stacks[j]

\* a call that puts chips in
C8_Witness ==
    /\ Expanded
    /\ valid_actions_mask[CallSlot]
    /\ TopBet > state_data.bets[ToMove]
    /\ HasAction(state_data, "Raise")

\* C9 -- disabled raise: a raise slot whose ratio in the street's ladder is 0
\* is masked false and has no child.
C9_DisabledRaise ==
    Expanded =>
        \A i \in 1 .. Len(Ladder) :
            Ladder[i] = 0 =>
                /\ ~valid_actions_mask[RaiseSlot(i)]
                /\ children[RaiseSlot(i)] = NoChild

\* a node with a disabled slot beside a raise that is legal
C9_Witness ==
    /\ Expanded
    /\ \E i, j \in 1 .. Len(Ladder) :
          /\ Ladder[i] = 0
          /\ valid_actions_mask[RaiseSlot(j)]

\* the raise of ratio Ladder[i] passes every condition but the cap
RaiseLegalBarCap(i) ==
    /\ Ladder[i] # 0
    /\ ~RaiseRejected(action_config, state_data,
                      RaiseSizing(state_data, Pot(state_data), TopBet, Ladder[i]))

\* an all-in is among the trailing actions of the current street
AllInThisStreet ==
    \E k \in 1 .. Len(state_data.history) :
        /\ state_data.history[k].action_type = "AllIn"
        /\ \A m \in k .. Len(state_data.history) :
              state_data.history[m].street = state_data.street

StreetCount == action_cnt(state_data)

\* seats x 3 - seats
StreetCap == state_data.player_count * 3 - state_data.player_count

\* every raise slot and the all-in slot are masked false
RaisingShut ==
    /\ \A i \in 1 .. Len(Ladder) : ~valid_actions_mask[RaiseSlot(i)]
    /\ ~valid_actions_mask[AllInSlot]

\* the cap masks nothing: the slots are legal on their other conditions alone
RaisingOpen ==
    /\ \A i \in 1 .. Len(Ladder) :
          valid_actions_mask[RaiseSlot(i)] <=> RaiseLegalBarCap(i)
    /\ valid_actions_mask[AllInSlot] <=> state_data.stacks[ToMove] > 0

\* a Play node, expanded without a panic, with no all-in on its street
NoAllInNode == Expanded /\ outcome = "running" /\ ~AllInThisStreet

\* C11 -- per-street action cap, as amended: at a Play node with no all-in on
\* the current street, every raise slot and the all-in slot are masked false
\* when MORE than seats x 3 - seats actions were taken on that street, and
\* the cap blocks nothing at that count or below.
C11_ActionCap ==
    NoAllInNode =>
        /\ StreetCount > StreetCap => RaisingShut
        /\ StreetCount <= StreetCap => RaisingOpen

\* C11 as stated: the slots are masked false once the count has reached
\* seats x 3 - seats, and the cap blocks nothing below that count.
C11_CapAtCount ==
    NoAllInNode =>
        /\ StreetCount >= StreetCap => RaisingShut
        /\ StreetCount < StreetCap => RaisingOpen

\* past the cap with no all-in: a raise that passes its other conditions and
\* the all-in of a seat with chips are both masked false
C11_Witness ==
    /\ NoAllInNode
    /\ StreetCount > StreetCap
    /\ \E i \in 1 .. Len(Ladder) : RaiseLegalBarCap(i)
    /\ state_data.stacks[ToMove] > 0
    /\ RaisingShut

\* the raise amount of ratio Ladder[i]: what it adds to the biggest bet
RaiseAmount(i) ==
    IF state_data.street = 1
    THEN RoundRatio(Ladder[i], TopBet) - TopBet
    ELSE RoundRatio(Ladder[i], Pot(state_data))

\* the chips the raiser must put in for the raise of ratio Ladder[i]
RaiseChips(i) == (TopBet - state_data.bets[ToMove]) + RaiseAmount(i)

BelowMinRaise(i) == RaiseAmount(i) < state_data.min_raise

TakesWholeStack(i) == RaiseChips(i) >= state_data.stacks[ToMove]

\* stack < commitment_percentage x buy_in / 100
UnderFloor(stack) ==
    stack * 100 < action_config.commited_to_pot_percentage * action_config.buy_in

\* the seat that made the last action of the history, when it was a raise
LastRaiser ==
    IF state_data.history # <<>>
       /\ state_data.history[Len(state_data.history)].action_type = "Raise"
    THEN state_data.history[Len(state_data.history)].player_index
    ELSE -1

CapApplies == ~AllInThisStreet /\ StreetCount > StreetCap

ExpandedAgain == Expanded /\ expansions' = expansions + 1

\* C14 -- idempotent expansion: a call of create_children on a Play node that
\* is already expanded leaves its children and its legality mask as they are.
C14_IdempotentExpansion ==
    [][ExpandedAgain =>
          /\ children' = children
          /\ valid_actions_mask' = valid_actions_mask]_vars

\* a node create_children was called on twice, with a legal action
C14_Witness ==
    /\ Expanded
    /\ expansions >= 2
    /\ outcome = "running"
    /\ \E k \in 1 .. Len(valid_actions_mask) : valid_actions_mask[k]

\* worker w has computed the deltas of its hand and written none of them
Computed(w) == At(w, "update") /\ workers[w].cursor = 0

\* worker w has written every record of its hand and still holds the locks
Committed(w) == At(w, "update") /\ workers[w].cursor = player_count

\* the record behind position i of worker w's table
Participant(w, i) == agents[workers[w].agents_game[i]]

\* the record behind position i of worker w's table, as the hand found it
ParticipantBefore(w, i) == ledger.start[workers[w].agents_game[i]]

\* the K-scaling factor of a record, in hundredths
KFactor(agent) ==
    IF agent.over_max_rating THEN 25
    ELSE IF agent.hands_played > 100000 THEN 50
    ELSE 100

\* what the rounding of the probabilities to thousandths can leave between
\* two deltas that are opposite in exact arithmetic
Rounding == EloUnit \div 20

\* C15 -- two-player Elo symmetry: with two seats and two participants of the
\* same K-scaling factor, the delta of one is the negative of the delta of
\* the other (up to the rounding of the arithmetic), whatever the Elos and
\* the rewards, and the hand leaves the sum of the two Elos as it was.
C15_EloSymmetry ==
    \A w \in Workers :
        /\ (Computed(w) /\ player_count = 2
              /\ KFactor(Participant(w, 1)) = KFactor(Participant(w, 2)))
            => Abs(workers[w].elo_diff[1] + workers[w].elo_diff[2]) <= Rounding
        /\ (Committed(w) /\ player_count = 2
              /\ KFactor(ParticipantBefore(w, 1)) = KFactor(ParticipantBefore(w, 2)))
            => Abs((Participant(w, 1).elo + Participant(w, 2).elo)
                   - (ParticipantBefore(w, 1).elo + ParticipantBefore(w, 2).elo))
                  <= Rounding

\* a heads-up hand between records of different Elo and the same factor,
\* won outright: the winner gains what the loser loses
C15_Witness ==
    \E w \in Workers :
        /\ Committed(w)
        /\ player_count = 2
        /\ KFactor(ParticipantBefore(w, 1)) = KFactor(ParticipantBefore(w, 2))
        /\ ParticipantBefore(w, 1).elo # ParticipantBefore(w, 2).elo
        /\ workers[w].elo_diff[1] > 5 * EloUnit
        /\ workers[w].elo_diff[2] < -5 * EloUnit

SameSign(x, y) == (x < 0 /\ y < 0) \/ (x > 0 /\ y > 0)

SignsDiffer(x, y) == (x < 0 /\ y > 0) \/ (x > 0 /\ y < 0)

\* K = 40 scaled by stake / buy_in, in hundredths
StakeK(stake) == RoundDiv(40 * EloUnit * stake, action_config.buy_in)

\* the K of a pair as the code has it: the gap between two rewards of the
\* same sign, else the smaller of the two sizes
GapOrSmaller(x, y) ==
    IF SameSign(x, y) THEN StakeK(Abs(x - y)) ELSE StakeK(Min(Abs(x), Abs(y)))

\* the K of a pair as the claim states it: the smaller size for two rewards
\* of the same sign, the gap when the signs differ
SmallerOrGap(x, y) ==
    IF SameSign(x, y) THEN StakeK(Min(Abs(x), Abs(y))) ELSE StakeK(Abs(x - y))

\* the delta of position i of worker w's table against position j, the
\* pair's K being k
DeltaAgainst(w, i, j, k) ==
    LET me    == Participant(w, i)
        other == Participant(w, j)
        won   == workers[w].total_won
    IN  calculate_elo_diff(calculate_expected_win_prob(me.elo, other.elo),
                           player_i_result(won[i], won[j]),
                           RoundDiv(k * KFactor(me), 100))

\* the deltas of worker w's hand when K(x, y) is the K of a pair
DeltasUnder(K(_, _), w) ==
    LET won == workers[w].total_won
    IN  [i \in 1 .. Len(won) |->
            SumOver([j \in 1 .. Len(won) |->
                        IF j = i THEN 0
                        ELSE DeltaAgainst(w, i, j, K(won[i], won[j]))],
                    1 .. Len(won))]

\* no reward of the hand is zero: every pair has the same sign or not
NoZeroReward(w) ==
    \A i \in 1 .. Len(workers[w].total_won) : workers[w].total_won[i] # 0

\* C16 -- stake-proportional K, as amended: for a pair (i, j) the base K of
\* 40 is multiplied by |reward_i - reward_j| / buy_in when both rewards have
\* the same sign, and by min(|reward_i|, |reward_j|) / buy_in otherwise
\* (signs differ, or a reward is zero).
C16_StakeK ==
    \A w \in Workers :
        Computed(w) => workers[w].elo_diff = DeltasUnder(GapOrSmaller, w)

\* C16 as stated: min(|reward_i|, |reward_j|) / buy_in for two rewards of the
\* same sign, |reward_i - reward_j| / buy_in when the signs differ.
C16_StakeKAsStated ==
    \A w \in Workers :
        (Computed(w) /\ NoZeroReward(w))
            => workers[w].elo_diff = DeltasUnder(SmallerOrGap, w)

\* a three-handed hand with two losers of different size and a winner: a
\* pair of the same sign and pairs of different signs, all with K > 0
C16_Witness ==
    \E w \in Workers :
        /\ Computed(w)
        /\ player_count = 3
        /\ \E i, j, m \in 1 .. 3 :
              /\ workers[w].total_won[i] < workers[w].total_won[j]
              /\ workers[w].total_won[j] < 0
              /\ workers[w].total_won[m] > 0
              /\ workers[w].elo_diff[i] < 0
              /\ workers[w].elo_diff[m] > 0

\* worker w's hand is the full-stake scenario: two seats, buy-in 300, both
\* records at Elo 1400 with no cap flag and at most 100,000 hands, position
\* win of the table winning 300 from the other
FullStake(w, win) ==
    /\ player_count = 2
    /\ action_config.buy_in = 300
    /\ \A i \in 1 .. 2 :
          /\ ParticipantBefore(w, i).elo = 1400 * EloUnit
          /\ ~ParticipantBefore(w, i).over_max_rating
          /\ ParticipantBefore(w, i).hands_played <= 100000
    /\ workers[w].total_won[win] = 300
    /\ workers[w].total_won[3 - win] = -300

\* C17 -- full-stake scenario: two agents at Elo 1400, no cap flag, at most
\* 100,000 hands, buy-in 300, one wins 300 from the other: after the rating
\* update the winner is at 1420 and the loser at 1380, and each has played
\* one hand more.
C17_FullStake ==
    \A w \in Workers : \A win \in 1 .. 2 :
        (Committed(w) /\ FullStake(w, win)) =>
            /\ Participant(w, win).elo = 1420 * EloUnit
            /\ Participant(w, 3 - win).elo = 1380 * EloUnit
            /\ \A i \in 1 .. 2 :
                  Participant(w, i).hands_played =
                      ParticipantBefore(w, i).hands_played + 1

\* the scenario after its update, the winner having played exactly 100,000
\* hands before it
C17_Witness ==
    \E w \in Workers : \E win \in 1 .. 2 :
        /\ Committed(w)
        /\ FullStake(w, win)
        /\ ParticipantBefore(w, win).hands_played = 100000
        /\ Participant(w, win).elo > Participant(w, 3 - win).elo

\* the delta of position i of worker w's table, from the records as the hand
\* found them: over every other position j, the pair's K times the factor of
\* record i, times (result - expected probability)
DeltaBefore(w, i) ==
    LET won == workers[w].total_won
        me  == ParticipantBefore(w, i)
    IN  SumOver([j \in 1 .. Len(won) |->
                    IF j = i THEN 0
                    ELSE calculate_elo_diff(
                            calculate_expected_win_prob(me.elo, ParticipantBefore(w, j).elo),
                            player_i_result(won[i], won[j]),
                            RoundDiv(dyn_elo_k(won[i], won[j], action_config.buy_in)
                                     * KFactor(me), 100))],
                1 .. Len(won))

\* C18 -- K volatility scaling: in each pairwise update a participant's K is
\* multiplied by 0.25 if its cap flag is set, whatever its hands played,
\* otherwise by 0.5 if it has played more than 100,000 hands (exactly 100,000
\* is not scaled), otherwise by 1; the flag and the hands played are those of
\* before the hand's update, also while the update is being written.
C18_KScaling ==
    \A w \in Workers :
        At(w, "update") =>
            \A i \in 1 .. Len(workers[w].total_won) :
                workers[w].elo_diff[i] = DeltaBefore(w, i)

\* a hand written to the records, between a flagged record and an unflagged
\* one of exactly 100,000 hands that the update takes over 2400: the second
\* moves at full K, more than three times as far as the first
C18_Witness ==
    \E w \in Workers : \E i, j \in 1 .. 2 :
        /\ Committed(w)
        /\ player_count = 2
        /\ ParticipantBefore(w, i).over_max_rating
        /\ ~ParticipantBefore(w, j).over_max_rating
        /\ ParticipantBefore(w, j).hands_played = 100000
        /\ Participant(w, j).over_max_rating
        /\ workers[w].elo_diff[i] # 0
        /\ Abs(workers[w].elo_diff[j]) > 3 * Abs(workers[w].elo_diff[i])

\* a step of the run between the start of play() and its return
DuringPlay == main_pc = "playing" /\ main_pc' = "playing"

\* C19 -- sticky cap flag: during play, a rating update that leaves a record's
\* Elo strictly above 2400 leaves its over_max_rating flag true, and a flag
\* that is true is true after every step, also when the Elo is back at 2400
\* or below.
C19_StickyFlag ==
    [][DuringPlay =>
          \A k \in DOMAIN agents :
              /\ (agents'[k] # agents[k] /\ agents'[k].elo > 2400 * EloUnit)
                    => agents'[k].over_max_rating
              /\ agents[k].over_max_rating => agents'[k].over_max_rating]_vars

\* one hand takes an unflagged record over 2400, which sets its flag, and a
\* flagged record from above 2400 to 2400 or below, which leaves its flag set
C19_Witness ==
    \E w \in Workers : \E i, j \in 1 .. 2 :
        /\ Committed(w)
        /\ ~ParticipantBefore(w, i).over_max_rating
        /\ Participant(w, i).elo > 2400 * EloUnit
        /\ Participant(w, i).over_max_rating
        /\ ParticipantBefore(w, j).over_max_rating
        /\ ParticipantBefore(w, j).elo > 2400 * EloUnit
        /\ Participant(w, j).elo <= 2400 * EloUnit
        /\ Participant(w, j).over_max_rating

\* the step in which play() returns
Returning == main_pc = "playing" /\ main_pc' = "returned"

\* C20 -- post-run roster: when play returns the roster holds exactly the
\* records whose Elo is not negative after the last hand, none of them
\* dropped and none of the negative ones kept, in order of non-increasing Elo.
C20_PostRunRoster ==
    [][Returning =>
          /\ {agents'[k] : k \in DOMAIN agents'}
                = {agents[k] : k \in {m \in DOMAIN agents : agents[m].elo >= 0}}
          /\ Cardinality(DOMAIN agents')
                = Cardinality({m \in DOMAIN agents : agents[m].elo >= 0})
          /\ \A i, j \in DOMAIN agents' :
                i < j => agents'[i].elo >= agents'[j].elo]_vars

\* play has returned a roster that lost a record to a negative Elo and kept
\* the winner of the hand
C20_Witness ==
    /\ main_pc = "returned"
    /\ Cardinality(DOMAIN agents) = 1
    /\ Cardinality(DOMAIN ledger.start) = 2
    /\ \E k \in DOMAIN ledger.start :
          ledger.start[k].elo + ledger.delta[k] < 0

\* the seats still in the hand in ledger sd
StillIn(sd) == {j \in Seats(sd) : sd.is_player_in[j]}

\* bets and stacks of ledger sd are those of the current node
SameChips(sd) == sd.bets = state_data.bets /\ sd.stacks = state_data.stacks

ClosureRule(slot) ==
    LET child == children[slot].state_data
        type  == children[slot].type
    IN  /\ type = "Play" <=> child.player_to_move # -1
        /\ child.player_to_move = -1 =>
              /\ state_data.street \in 1 .. 3 => type = "Chance"
              /\ state_data.street = 4 => type = "Terminal"

\* C29 -- round closure after call or all-in: the child of a legal call or
\* all-in is a Play state exactly when some seat still owes action; when the
\* round is closed it is a Chance state on streets 1 to 3 and a Terminal
\* state on street 4; no node is past street 4 and no Chance state is made on
\* street 4.
C29_RoundClosure ==
    /\ state_data.street \in 1 .. 4
    /\ node_type = "Chance" => state_data.street < 4
    /\ Expanded =>
          /\ valid_actions_mask[CallSlot] => ClosureRule(CallSlot)
          /\ valid_actions_mask[AllInSlot] => ClosureRule(AllInSlot)
          /\ \A k \in 1 .. Len(children) :
                children[k].type = "Chance" => children[k].state_data.street < 4

\* on street 4 a call closes the round at a showdown and an all-in keeps it
\* open
C29_Witness ==
    /\ Expanded
    /\ state_data.street = 4
    /\ valid_actions_mask[CallSlot]
    /\ children[CallSlot].type = "Terminal"
    /\ valid_actions_mask[AllInSlot]
    /\ children[AllInSlot].type = "Play"

\* a seat that is in the hand and has chips behind
Able(j) == state_data.is_player_in[j] /\ state_data.stacks[j] > 0

\* seat j is the seat immediately before the raiser in turn order: it can
\* act, and no seat between it and the raiser can
SeatBeforeRaiser(j) ==
    LET n    == state_data.player_count
        back == (ToMove - j + n) % n
    IN  /\ j # ToMove
        /\ Able(j)
        /\ \A m \in Seats(state_data) \ {ToMove} :
              (ToMove - m + n) % n < back => ~Able(m)

\* C30 -- a successful raise leaves a seat to act: every legal raise sets
\* last-to-act to the seat immediately before the raiser in turn order and
\* leads to a Play state whose seat to move is not the raiser; no expansion
\* ends on 'raised but no one left to play'.
C30_RaiseLeavesActor ==
    /\ outcome # "raise_no_next"
    /\ Expanded =>
          \A i \in 1 .. Len(Ladder) :
              valid_actions_mask[RaiseSlot(i)] =>
                  LET child == children[RaiseSlot(i)].state_data
                  IN  /\ children[RaiseSlot(i)].type = "Play"
                      /\ child.player_to_move \in Seats(state_data) \ {ToMove}
                      /\ SeatBeforeRaiser(child.last_player)

\* a raise made three-handed after a fold: the seat before the raiser in
\* seat order is out, and the seat to act last is the one before it
C30_Witness ==
    /\ Expanded
    /\ state_data.player_count = 3
    /\ ~state_data.is_player_in[(ToMove + 2) % 3]
    /\ \E i \in 1 .. Len(Ladder) :
          /\ valid_actions_mask[RaiseSlot(i)]
          /\ children[RaiseSlot(i)].state_data.last_player = (ToMove + 1) % 3

\* worker w holds no record lock, no guard and not the roster lock
HoldsNothing(w) == HeldBy(w) = {} /\ workers[w].holds = Free /\ roster_mutex # w

\* this step is worker w's hand failing: it sat its table and now panics
HandFails(w) == At(w, "seat") /\ Len(workers[w].indexes) = player_count
                    /\ workers'[w].pc = "panicked"

\* every worker has left its loops, by finishing or by a panic
Settled == main_pc = "playing" /\ \A w \in Workers : workers[w].pc \in {"done", "panicked"}

\* C24 -- a failed hand does not touch the rating table: the step on which
\* play_one_hand fails changes no record and no lock; the failing worker holds
\* no rating-record lock and no roster lock then or afterwards; and when the
\* workers are through, every record has changed by the completed hands
\* only.
C24_FailedHand ==
    /\ [][\A w \in Workers :
              HandFails(w) => /\ agents' = agents
                              /\ mutex' = mutex
                              /\ roster_mutex' = roster_mutex
                              /\ HoldsNothing(w)]_vars
    /\ [](\A w \in Workers : workers[w].pc = "panicked" => HoldsNothing(w))
    /\ [](Settled =>
            \A k \in DOMAIN agents :
                /\ agents[k].hands_played = ledger.start[k].hands_played + ledger.hands[k]
                /\ agents[k].elo = ledger.start[k].elo + ledger.delta[k])

\* one worker's hand has failed and another worker, whose table shares a
\* record with the failed hand, has since written its whole update
C24_Witness ==
    \E w, v \in Workers :
        /\ w # v
        /\ ledger.failed
        /\ workers[w].pc = "panicked"
        /\ Len(workers[w].indexes) = player_count
        /\ Committed(v)
        /\ \E i, j \in 1 .. player_count :
              workers[w].agents_game[i] = workers[v].agents_game[j]
        /\ \E k \in DOMAIN agents : agents[k].elo # ledger.start[k].elo

\* the distance of record k's Elo from the Elo of worker w's acting agent
Distance(w, k) == Abs(agents[workers[w].agent_index].elo - agents[k].elo)

\* every record but the acting agent of worker w
Candidates(w) == DOMAIN agents \ {workers[w].agent_index}

\* no two candidates are equally far from the acting agent
NoTies(w) ==
    \A k, m \in Candidates(w) : k # m => Distance(w, k) # Distance(w, m)

\* worker w has chosen its table
Picked(w) == At(w, "seat") /\ workers[w].agents_game # <<>>

\* the opponents at worker w's table: every entry but the last
Opponents(w) ==
    {workers[w].agents_game[i] : i \in 1 .. Len(workers[w].agents_game) - 1}

\* C21 -- matchmaking: whatever the shuffle, the acting agent sits last at its
\* table and is not among its opponents, and when no two candidates are at
\* the same distance the opponents are exactly the seats - 1 other records
\* closest in Elo.
C21_Matchmaking ==
    \A w \in Workers :
        Picked(w) =>
            /\ workers[w].agents_game[Len(workers[w].agents_game)] = workers[w].agent_index
            /\ Opponents(w) \subseteq Candidates(w)
            /\ Len(workers[w].agents_game) = player_count
            /\ NoTies(w) =>
                  /\ Cardinality(Opponents(w)) = player_count - 1
                  /\ \A k \in Opponents(w) : \A m \in Candidates(w) \ Opponents(w) :
                        Distance(w, k) < Distance(w, m)

\* a three-seat table for an agent whose two closest records are neither its
\* roster neighbours nor the first candidates in roster order
C21_Witness ==
    \E w \in Workers :
        /\ Picked(w)
        /\ NoTies(w)
        /\ player_count = 3
        /\ workers[w].agent_index = 1
        /\ Opponents(w) = {2, 3}

\* the last call was op
Did(op) == call.op = op

\* load_state has just run on a freshly constructed Tournament and on the
\* file save_state wrote
LoadedBack == Did("load_state") /\ call.before = <<>> /\ saved.written

\* C22 -- persistence round-trip (as stated): save_state followed by
\* load_state into a freshly constructed Tournament yields the saved roster:
\* as many records in the same order, each with the same iteration, network
\* file, Elo, hands_played and cap flag.
C22_RoundTrip ==
    LoadedBack => call.result = "Ok" /\ agents = saved.roster

\* no network file of the saved roster holds a ';' or a line feed
PlainNames ==
    \A k \in DOMAIN saved.roster :
        \A i \in 1 .. Len(saved.roster[k].network_file) :
            saved.roster[k].network_file[i] \notin {";", "\n"}

\* the round trip for rosters whose network files hold no separator
RoundTripPlainNames ==
    (LoadedBack /\ PlainNames) => call.result = "Ok" /\ agents = saved.roster

\* a rated roster of two records has been saved and loaded back
LoadedBackRated ==
    /\ LoadedBack
    /\ PlainNames
    /\ Cardinality(DOMAIN agents) = 2
    /\ agents[0].over_max_rating
    /\ agents[0].elo % EloUnit # 0

\* C23 -- load is all-or-nothing (as stated): when load_state meets a
\* malformed line the load fails as a whole and the roster is as it was
\* before the call.
C23_LoadAllOrNothing ==
    (Did("load_state") /\ call.result = "panic") => agents = call.before

\* the roster after the last call, as a sequence
Now == AsSeq(agents)

\* C25 -- add_agent appends exactly one record with Elo 1400, hands_played 0
\* and cap flag false at the end of the roster and leaves every existing
\* record and its position unchanged; when loading the network fails it
\* returns the error and the roster is unchanged.
C25_AddAgent ==
    Did("add_agent") =>
        LET before == AsSeq(call.before)
        IN  IF call.result = "Ok"
            THEN /\ Len(Now) = Len(before) + 1
                 /\ SubSeq(Now, 1, Len(before)) = before
                 /\ Now[Len(Now)].elo = 1400 * EloUnit
                 /\ Now[Len(Now)].hands_played = 0
                 /\ Now[Len(Now)].over_max_rating = FALSE
                 /\ Now[Len(Now)].network_file = call.arg[1]
                 /\ Now[Len(Now)].iteration = call.arg[2]
            ELSE /\ call.result = "Err"
                 /\ ~LoadVarMap(call.arg[1])
                 /\ Now = before

\* a record has been added behind three rated records whose Elo is not 1400
C25_Witness ==
    /\ Did("add_agent")
    /\ call.result = "Ok"
    /\ Len(AsSeq(call.before)) = 3
    /\ \A k \in DOMAIN call.before : call.before[k].elo # 1400 * EloUnit

\* how often record r occurs in roster seq
Occurrences(seq, r) == Cardinality({i \in 1 .. Len(seq) : seq[i] = r})

\* the same records, in any order
SameRecords(a, b) ==
    /\ Len(a) = Len(b)
    /\ \A i \in 1 .. Len(a) : Occurrences(a, a[i]) = Occurrences(b, a[i])

\* result holds the policies of the records at positions S of roster, in
\* some order
PoliciesOf(result, roster, S) ==
    /\ Cardinality(S) = Len(result)
    /\ \E order \in [1 .. Len(result) -> S] :
          /\ \A i, j \in 1 .. Len(result) : i # j => order[i] # order[j]
          /\ \A i \in 1 .. Len(result) : result[i] = roster[order[i]].agent_network

\* C26 -- get_best_agents(n) returns min(n, roster size) policies; with more
\* than n records every returned policy's Elo is at least that of every
\* policy not returned; with n or fewer records all are returned; and no
\* record's Elo, hands_played or cap flag changes.
C26_BestAgents ==
    Did("get_best_agents") =>
        LET before == AsSeq(call.before)
            n      == call.arg
        IN  /\ Len(call.result) = Min(n, Len(before))
            /\ \E S \in SUBSET (1 .. Len(before)) :
                  /\ PoliciesOf(call.result, before, S)
                  /\ \A i \in S : \A j \in (1 .. Len(before)) \ S :
                        before[i].elo >= before[j].elo
            /\ Len(before) <= n => PoliciesOf(call.result, before, 1 .. Len(before))
            /\ SameRecords(Now, before)

\* the best of three rated records was asked for and it was not the first of
\* the roster
C26_Witness ==
    /\ Did("get_best_agents")
    /\ call.arg = 1
    /\ Len(AsSeq(call.before)) = 3
    /\ call.before[0].elo < call.before[1].elo
    /\ call.result = <<call.before[1].agent_network>>

\* the agent call has returned
Returned == call.op \in {"choose_action", "choose_action_from_net"}
                /\ call.result.pc = "returned"

SomeLegal(mask) == \E i \in 1 .. Len(mask) : mask[i]

\* index i is in range of the mask and its entry is true
Legal(mask, i) == i \in 0 .. Len(mask) - 1 /\ mask[i + 1]

\* C27 -- agents only return legal indices: for a mask with at least one true
\* entry, AgentRandom::choose_action returns an index in range whose mask
\* entry is true, and choose_action_from_net with no_invalid = true returns
\* either Ok(index) with index in range and mask[index] true or an error.
C27_LegalIndex ==
    (Returned /\ SomeLegal(call.arg.mask)) =>
        /\ call.op = "choose_action" =>
              /\ call.result.kind = "Ok"
              /\ Legal(call.arg.mask, call.result.action_index)
        /\ (call.op = "choose_action_from_net" /\ call.arg.no_invalid) =>
              \/ call.result.kind = "Err"
              \/ /\ call.result.kind = "Ok"
                 /\ Legal(call.arg.mask, call.result.action_index)

\* the network's heaviest entry was illegal and past the mask, the draw fell
\* on it, and a legal index came back
C27_Witness ==
    /\ Returned
    /\ call.op = "choose_action_from_net"
    /\ call.arg.no_invalid
    /\ call.arg.shape_ok
    /\ call.arg.mask = <<FALSE, TRUE>>
    /\ call.arg.probas = <<1, 0, 3>>
    /\ call.result.kind = "Ok"
    /\ call.result.action_index = 1

\* the ledger the raise of ratio Ladder[i] leads to
Raised(i) == children[RaiseSlot(i)].state_data

\* C31 -- raise sizing: after a legal raise of ratio r the raiser's bet is
\* the previous biggest bet plus the raise amount; preflop the new bet is
\* round(r x biggest bet), postflop the raise amount is round(r x pot) and the
\* chips put in are the call amount plus the raise amount; the chips come out
\* of the raiser's stack, and the raiser's bet ends strictly above every
\* other seat's bet.
C31_RaiseSizing ==
    Expanded =>
        \A i \in 1 .. Len(Ladder) :
            valid_actions_mask[RaiseSlot(i)] =>
                LET put_in == Raised(i).bets[ToMove] - state_data.bets[ToMove]
                IN  /\ Raised(i).bets[ToMove] = TopBet + RaiseAmount(i)
                    /\ state_data.street = 1 =>
                          Raised(i).bets[ToMove] = RoundRatio(Ladder[i], TopBet)
                    /\ state_data.street # 1 =>
                          put_in = (TopBet - state_data.bets[ToMove])
                                     + RoundRatio(Ladder[i], Pot(state_data))
                    /\ Raised(i).stacks[ToMove] = state_data.stacks[ToMove] - put_in
                    /\ \A j \in Seats(state_data) \ {ToMove} :
                          /\ Raised(i).bets[ToMove] > Raised(i).bets[j]
                          /\ Raised(i).bets[j] = state_data.bets[j]

\* after the flop a seat that faces a bet raises it, and before the flop a
\* seat raises: both sizings are legal at some node
C31_Witness ==
    /\ Expanded
    /\ state_data.street > 1
    /\ state_data.bets[ToMove] < TopBet
    /\ \E i \in 1 .. Len(Ladder) :
          /\ valid_actions_mask[RaiseSlot(i)]
          /\ RaiseAmount(i) # RoundRatio(Ladder[i], TopBet) - TopBet
    /\ HasAction(state_data, "Raise")

\* the whose-turn pointer of a ledger is the round-closed sentinel or a seat
\* that has not folded in that ledger
PointerValid(sd) ==
    \/ sd.player_to_move = -1
    \/ /\ sd.player_to_move \in Seats(sd)
       /\ sd.is_player_in[sd.player_to_move]

\* C32 -- whose-turn validity: in the ledger of every node of the walk and of
\* every child derived by fold, call, raise or all-in, the whose-turn pointer
\* is -1 or a seat still in the hand in that same ledger; the fold child has
\* the folder out of the hand and never points at the folder.
C32_PointerValid ==
    /\ PointerValid(state_data)
    /\ \A k \in DOMAIN children :
          children[k].type # "None" => PointerValid(children[k].state_data)
    /\ (Expanded /\ valid_actions_mask[FoldSlot]) =>
          /\ ~children[FoldSlot].state_data.is_player_in[ToMove]
          /\ children[FoldSlot].state_data.player_to_move # ToMove

\* a fold at a three-seat table hands the turn to another seat, while another
\* action of the same node closes the round or passes the turn as well
C32_Witness ==
    /\ Expanded
    /\ valid_actions_mask[FoldSlot]
    /\ children[FoldSlot].type = "Play"
    /\ children[FoldSlot].state_data.player_to_move \in Seats(state_data) \ {ToMove}
    /\ state_data.is_player_in[ToMove]

Expanding == node_type = "Play" /\ expansions' = expansions + 1

\* the child ledger c is the ledger sd after one action of the seat to move
OneActionAfter(c, sd) ==
    /\ Len(c.history) = Len(sd.history) + 1
    /\ SubSeq(c.history, 1, Len(sd.history)) = sd.history
    /\ c.history[Len(c.history)].player_index = sd.player_to_move
    /\ c.history[Len(c.history)].street = sd.street
    /\ c.last_actions[sd.player_to_move] = c.history[Len(c.history)]
    /\ c.street = sd.street
    /\ c.min_raise = sd.min_raise
    /\ c.player_count = sd.player_count
    /\ \A j \in Seats(sd) \ {sd.player_to_move} :
          /\ c.bets[j] = sd.bets[j]
          /\ c.stacks[j] = sd.stacks[j]
          /\ c.is_player_in[j] = sd.is_player_in[j]
          /\ c.last_actions[j] = sd.last_actions[j]

\* C34 -- copy-on-branch: a step of create_children leaves the expanded
\* node's own ledger and kind unchanged, and the ledger of every child it
\* holds afterwards is the parent's ledger after exactly one action: the
\* parent's history with one action appended, tagged with the parent's acting
\* seat and street, the same street and minimum raise, and the other seats'
\* bets, stacks and flags untouched.
C34_CopyOnBranch ==
    [][Expanding =>
          /\ state_data' = state_data
          /\ node_type' = node_type
          /\ \A k \in DOMAIN children' :
                children'[k].type # "None" =>
                    OneActionAfter(children'[k].state_data, state_data)]_vars

\* an expanded node after some actions whose children include a fold, a
\* raise and an all-in
C34_Witness ==
    /\ Expanded
    /\ Len(state_data.history) >= 2
    /\ valid_actions_mask[FoldSlot]
    /\ valid_actions_mask[AllInSlot]
    /\ \E i \in 1 .. Len(Ladder) : valid_actions_mask[RaiseSlot(i)]
    /\ \A k \in DOMAIN children :
          valid_actions_mask[k] =>
              Len(children[k].state_data.history) = Len(state_data.history) + 1

\* the entries of a sequence, as a set
Entries(seq) == {seq[i] : i \in 1 .. Len(seq)}

\* the step on which worker w's hand is played and its rewards come back
HandPlayed(w) == Seated(w) /\ workers'[w].pc = "try_lock"

\* C35 -- seating is a permutation and rewards return to their owner: during
\* the seating loop the positions handed out so far are pairwise distinct
\* indices into the table and, with the ones still to hand out, make up
\* 0 .. seats - 1; when the loop is over every table entry has exactly one
\* position. Position p of the hand is played by the policy of table entry
\* indexes[p] (lines 184-186 push both in the same round of the loop), and the
\* step that plays the hand records rewards[p] for that table entry. In the
\* update, entry i of total_won is paired with the locked record of entry i
\* of the table.
C35_Seating ==
    /\ [](\A w \in Workers :
             At(w, "seat") =>
                 LET me == workers[w]
                 IN  /\ Cardinality(Entries(me.indexes)) = Len(me.indexes)
                     /\ Entries(me.indexes) \cap Entries(me.indexes_sorted) = {}
                     /\ Entries(me.indexes) \cup Entries(me.indexes_sorted)
                           = 0 .. player_count - 1
                     /\ Len(me.agents_game) = player_count)
    /\ [][\A w \in Workers :
              HandPlayed(w) =>
                  \E rewards \in Rewards :
                      \A p \in 1 .. player_count :
                          workers'[w].total_won[workers[w].indexes[p] + 1] = rewards[p]]_vars
    /\ [](\A w \in Workers :
             InUpdate(w) =>
                 /\ Len(workers[w].total_won) = player_count
                 /\ \A i \in 1 .. player_count :
                       /\ workers[w].agents_locked[i] = workers[w].agents_game[i]
                       /\ mutex[workers[w].agents_game[i]] = w)

\* the acting agent, last entry of its table, sat in the first position of a
\* hand that was won and lost, and the update is about to read the rewards
C35_Witness ==
    \E w \in Workers :
        /\ At(w, "compute")
        /\ workers[w].total_won = <<-action_config.buy_in, action_config.buy_in>>
        /\ workers[w].agents_game[2] = workers[w].agent_index

\* the roster indices of `start..end` for a worker, lines 121-122 and 133
Slice(worker, agents_length, n_workers) ==
    LET batch_size == BatchSize(agents_length, n_workers)
    IN  {i \in 0 .. BatchEnd(worker, batch_size, agents_length) - 1 :
            i >= BatchStart(worker, batch_size)}

\* the slices of n_workers workers are pairwise disjoint and cover the roster
Partitioned(agents_length, n_workers) ==
    /\ \A w, v \in 0 .. n_workers - 1 :
          w # v => Slice(w, agents_length, n_workers)
                     \cap Slice(v, agents_length, n_workers) = {}
    /\ UNION {Slice(w, agents_length, n_workers) : w \in 0 .. n_workers - 1}
          = 0 .. agents_length - 1

\* the slice of worker w in the run under way
MySlice(w) == Slice(w, RosterSize, play_args.n_workers)

\* worker w is at hand (round, agent_index) of its loops
AtHand(me, round, agent_index) ==
    me.pc # "done" /\ me.round = round /\ me.agent_index = agent_index

\* the first hand of a worker: round 0 of the first index of its slice
FirstHand(me, slice, rounds) ==
    IF slice = {} \/ rounds = 0 THEN me.pc = "done"
    ELSE AtHand(me, 0, CHOOSE i \in slice : \A j \in slice : i <= j)

\* C36 -- static partition of the roster: for every roster size and every
\* number of workers (one or more), the index ranges
\* [worker x batch_size, min((worker+1) x batch_size, roster size)) are
\* pairwise disjoint and cover every roster index. In a run, a worker's acting
\* agent is always an index of its own slice in a round below rounds =
\* total_hands / roster size; the worker starts at round 0 of the first index
\* of its slice, goes on to the next index of the slice, then to the next
\* round, and is done after the last index of the last round, so that every
\* agent is the acting agent once per round; and when every worker is through
\* its loops, rounds x roster size hands have been played.
C36_Partition ==
    /\ [](main_pc = "ready" =>
             \A agents_length \in 1 .. MaxRoster + 1, n_workers \in 1 .. MaxRoster + 2 :
                 Partitioned(agents_length, n_workers))
    /\ [](main_pc = "playing" =>
             /\ \A w \in Workers :
                   workers[w].pc # "done" =>
                       /\ workers[w].agent_index \in MySlice(w)
                       /\ workers[w].round \in 0 .. play_args.rounds - 1)
    /\ [][main_pc = "ready" /\ main_pc' = "playing" =>
             /\ Partitioned(RosterSize, Cardinality(DOMAIN workers'))
             /\ \A w \in DOMAIN workers' :
                 FirstHand(workers'[w],
                           Slice(w, RosterSize, Cardinality(DOMAIN workers')),
                           play_args'.rounds)]_vars
    /\ [][\A w \in Workers :
             (At(w, "update") /\ workers'[w].pc # "update") =>
                 LET me == workers[w]
                 IN  IF me.agent_index + 1 \in MySlice(w)
                     THEN AtHand(workers'[w], me.round, me.agent_index + 1)
                     ELSE IF me.round + 1 < play_args.rounds
                     THEN FirstHand(workers'[w], MySlice(w), play_args.rounds)
                          /\ workers'[w].round = me.round + 1
                     ELSE workers'[w].pc = "done"]_vars
    /\ [](Joined =>
             SumOver(ledger.hands, DOMAIN ledger.hands)
                 = player_count * play_args.rounds * RosterSize)

\* two workers with slices of different sizes are through a round over the
\* whole roster
C36_Witness ==
    /\ Joined
    /\ play_args.n_workers = 2
    /\ play_args.rounds = 1
    /\ Cardinality(MySlice(0)) = 2
    /\ Cardinality(MySlice(1)) = 1
    /\ SumOver(ledger.hands, DOMAIN ledger.hands) = player_count * RosterSize

\* the step on which worker w leaves the seating block for play_one_hand
LeavesSeating(w) == At(w, "seat") /\ workers'[w].pc # "seat"

\* C37 -- no lock is held across simulation: on the step that takes a worker
\* from the seating block into play_one_hand the worker holds no record lock
\* and not the roster lock, and the step takes none; a worker whose table is
\* seated and whose hand is being played owns no lock, so every lock another
\* worker needs is free or held by a worker that is not simulating.
C37_NoLockAcrossHand ==
    /\ [][\A w \in Workers :
              LeavesSeating(w) =>
                  /\ HeldBy(w) = {}
                  /\ workers[w].holds = Free
                  /\ roster_mutex # w
                  /\ mutex' = mutex
                  /\ roster_mutex' = roster_mutex]_vars
    /\ [](\A w \in Workers :
             Seated(w) =>
                 /\ roster_mutex # w
                 /\ \A k \in DOMAIN mutex : mutex[k] # w)

\* read skew: worker w chose its table and is simulating its hand while
\* worker v, which locked its records after w read them, has already written
\* a new Elo to a record of w's table
C37_Witness ==
    \E w, v \in Workers :
        /\ w # v
        /\ Seated(w)
        /\ At(v, "update")
        /\ workers[v].cursor >= 1
        /\ workers[v].elo_diff[1] # 0
        /\ workers[v].agents_locked[1] \in Entries(workers[w].agents_game)
        /\ agents[workers[v].agents_locked[1]].elo
              # ledger.start[workers[v].agents_locked[1]].elo

\* worker w is inside the matchmaking block of lines 139-173
InMatchmaking(w) == At(w, "read_chosen") \/ At(w, "read_other")

\* worker w is at a blocking lock() that another worker's guard keeps shut
Blocked(w) == Running(w) /\ workers[w].holds = Free /\ ~LockAvailable(w)

\* C38 -- the rating table is never locked as a whole, as stated: no lock
\* shuts every other worker out of the table, so a worker that waits at a
\* lock waits for the lock of one record it needs, which another worker
\* holds, and never for the table itself.
C38_NeverLockedAsAWhole ==
    \A w \in Workers :
        Blocked(w) =>
            \E k \in DOMAIN mutex :
                /\ mutex[k] \notin {Free, w}
                /\ \/ At(w, "read_chosen") /\ k = workers[w].agent_index
                   \/ At(w, "read_other") /\ k = NextOther(w)
                   \/ At(w, "seat") /\ k \in Entries(workers[w].agents_game)

\* matchmaking is mutually exclusive: the roster lock admits one worker
MatchmakingExclusive ==
    \A w, v \in Workers :
        (InMatchmaking(w) /\ InMatchmaking(v)) => w = v

\* worker w has formed the table of its hand
HasTable(w) ==
    main_pc = "playing" /\ w \in Workers
        /\ workers[w].pc \in {"seat", "try_lock", "clear", "sleep", "compute", "update"}

\* worker w panicked inside the seating loop, at agents_game[agent_index]
SeatPanic(w) ==
    /\ main_pc = "playing"
    /\ w \in Workers
    /\ workers[w].pc = "panicked"
    /\ Len(workers[w].indexes) < player_count

\* C39 -- table composition: when the roster has at least as many records as
\* the table has seats, the table of every hand is made of exactly seats
\* pairwise distinct roster records, the last of which is the acting agent;
\* the lock loop is never about to try a record it already holds, and no
\* worker panics in the seating loop. When the roster has fewer records than
\* seats, every table is the whole roster, short of a seat; no hand is played
\* on it and no rating is touched: the worker panics in the seating loop, and
\* only a worker with no hand to play ends its loops.
C39_TableComposition ==
    /\ RosterSize >= player_count =>
          \A w \in Workers :
              /\ ~SeatPanic(w)
              /\ HasTable(w) =>
                    LET table == workers[w].agents_game
                    IN  /\ Len(table) = player_count
                        /\ Cardinality(Entries(table)) = player_count
                        /\ Entries(table) \subseteq DOMAIN agents
                        /\ table[Len(table)] = workers[w].agent_index
                        /\ At(w, "try_lock") =>
                              table[workers[w].cursor + 1]
                                  \notin Entries(workers[w].agents_locked)
    /\ RosterSize < player_count =>
          /\ \A k \in DOMAIN agents :
                ledger.hands[k] = 0 /\ agents[k] = ledger.start[k]
          /\ \A w \in Workers :
                /\ workers[w].pc \in {"lock_roster", "read_chosen", "read_other",
                                      "seat", "panicked", "done"}
                /\ (At(w, "seat") \/ SeatPanic(w)) =>
                      /\ Len(workers[w].agents_game) = RosterSize
                      /\ Len(workers[w].indexes) < player_count
                /\ (main_pc = "playing" /\ workers[w].pc = "done") =>
                      (MySlice(w) = {} \/ play_args.rounds = 0)

\* a roster of one record at a table of two seats: the acting agent sat down
\* alone, and the next round of the seating loop indexed past the table
C39_Witness ==
    \E w \in Workers :
        /\ RosterSize < player_count
        /\ SeatPanic(w)
        /\ workers[w].agents_game = <<workers[w].agent_index>>
        /\ Len(workers[w].indexes) = 1

\* a roster of as many records as seats: the whole roster sits at every table
FullTableLocked ==
    \E w \in Workers :
        /\ RosterSize = player_count
        /\ At(w, "compute")
        /\ Entries(workers[w].agents_game) = DOMAIN agents

====
